---- MODULE Spec2Model ----
(***************************************************************************)
(* Model of dnskeytool (martok/py-dnskey): the key lifecycle functions of  *)
(* KeyFile (state, next_change), the ZSK rotation planner main_rotate, the  *)
(* recursive resolver and the published key collection.                    *)
(* Instants are whole seconds (key files carry YYYYMMDDhhmmss, intervals   *)
(* are whole seconds), so a datetime is an integer and a timedelta is an   *)
(* integer number of seconds.  An Optional[datetime] is the empty tuple    *)
(* (None) or a one-element tuple holding the instant.                      *)
(***************************************************************************)
EXTENDS Integers, Sequences, FiniteSets, TLC

VARIABLES
    key,      \* the KeyFile the lifecycle functions are applied to
    ref,      \* the reference time of the last call
    op,       \* the last lifecycle call: "new", "state", "next_change", "iterate"
    st,       \* result of the last KeyFile.state call
    nc,       \* result of the last KeyFile.next_change call
    hist,     \* instants returned so far while iterating next_change
    store,    \* the key files of the zone directory (a set of KeyFile records)
    args,     \* the argparse namespace of the rotate run
    pc,       \* position of main_rotate: "start", "exec", "done"
    plan,     \* the plan of the current run
    todo,     \* the tasks of the plan not yet executed
    ret,      \* outcome of main_rotate: return code or exception
    calls,    \* external commands run by the key store (DnsSec._call), in order
    run,      \* number of the rotate run on this directory (1 or 2)
    seen,     \* what the first run saw and planned (for comparing runs)
    net,      \* the DNS servers: which refuse connections, what the zones hold
    prefer_v4,    \* RecursiveResolver.prefer_v4
    query_cache,  \* RecursiveResolver._query_cache
    sent,     \* the queries sent to servers by the last resolver call, in order
    lastq,    \* the last resolver call and its outcome
    nq,       \* number of resolver calls made so far
    hostq,    \* the resolve_host call, if it was the last call: host, outcome, queries
    thr,      \* the threads that call query on one RecursiveResolver
    stubq,    \* the last call of a StubResolver and its outcome
    world,    \* what the DNS holds for the zones a collection is asked about
    explicit_nameservers, \* PublishedKeyCollection.explicit_nameservers
    known_zones,   \* PublishedKeyCollection.known_zones
    zone_ds,       \* PublishedKeyCollection.zone_ds
    zone_dnskey,   \* PublishedKeyCollection.zone_dnskey
    zone_signers,  \* PublishedKeyCollection.zone_signers
    used_resolver, \* PublishedKeyCollection.used_resolver
    lastz,    \* the last query_zone call: zone, exception, collection before it
    lookups,  \* the DNS lookups the last query_zone call issued, in order
    contacted, \* result of contacted_servers for the maps as they are, if called
    nz,       \* number of collection calls made so far
    inp,      \* the text given to parse_datetime_relative
    delta     \* what parse_datetime_relative made of it: a timedelta or an exception

keyVars == <<key, ref, op, st, nc, hist>>
rotVars == <<store, args, pc, plan, todo, ret, calls, run, seen>>
resVars == <<net, prefer_v4, query_cache, sent, lastq, nq, hostq>>
pkcVars == <<known_zones, zone_ds, zone_dnskey, zone_signers, used_resolver>>
lookVars == <<world, explicit_nameservers, pkcVars, lastz, lookups, contacted, nz>>
stubVars == <<stubq>>
thrVars == <<thr>>
dnsVars == <<resVars, lookVars, stubVars, thrVars>>
dtVars == <<inp, delta>>
vars == <<keyVars, rotVars, dnsVars, dtVars>>

----------------------------------------------------------------------------
(* Bounds of the model. *)
MaxTime == 4

Times == 0..MaxTime

----------------------------------------------------------------------------
(* Optional[datetime] *)
None == <<>>

Some(t) == <<t>>

OptTimes == {None} \cup {Some(t) : t \in Times}

(* KeyFile.__init__: the five timestamps start as None and are filled from *)
(* the key file's comment lines.                                           *)
KeyFiles ==
    [d_create : OptTimes, d_publish : OptTimes, d_active : OptTimes,
     d_inactive : OptTimes, d_delete : OptTimes]

(* "x is not None and x <= ref" *)
SetAndLe(x, r) == x # None /\ x[1] <= r

(* "x is not None and x > ref" *)
SetAndGt(x, r) == x # None /\ x[1] > r

(* KeyFile.state with ref given *)
stateMutExclusive(k, r) ==
    IF k.d_delete # None /\ k.d_delete[1] < r THEN "DEL"
    ELSE IF k.d_inactive # None /\ k.d_inactive[1] < r THEN "INAC"
    ELSE IF k.d_active # None /\ k.d_active[1] < r THEN "ACT"
    ELSE IF k.d_publish # None /\ k.d_publish[1] < r THEN "PUB"
    ELSE IF SetAndGt(k.d_create, r) THEN "FUT"
    ELSE ""

stateMutFuture(k, r) ==
    IF SetAndLe(k.d_delete, r) THEN "DEL"
    ELSE IF SetAndLe(k.d_inactive, r) THEN "INAC"
    ELSE IF SetAndLe(k.d_active, r) THEN "ACT"
    ELSE IF SetAndLe(k.d_publish, r) THEN "PUB"
    ELSE IF SetAndLe(k.d_create, r) THEN "FUT"
    ELSE ""

state(k, r) ==
    IF SetAndLe(k.d_delete, r) THEN "DEL"
    ELSE IF SetAndLe(k.d_inactive, r) THEN "INAC"
    ELSE IF SetAndLe(k.d_active, r) THEN "ACT"
    ELSE IF SetAndLe(k.d_publish, r) THEN "PUB"
    ELSE IF SetAndGt(k.d_create, r) THEN "FUT"
    ELSE ""

(* list(filter(lambda x: x is not None, xs)) for a list of Optionals *)
RECURSIVE FilterSet(_)
FilterSet(xs) ==
    IF xs = <<>> THEN <<>>
    ELSE IF Head(xs) # None THEN <<Head(xs)[1]>> \o FilterSet(Tail(xs))
    ELSE FilterSet(Tail(xs))

(* insertion of x into an ascending list, after the elements equal to it *)
RECURSIVE Insert(_, _)
Insert(x, s) ==
    IF s = <<>> THEN <<x>>
    ELSE IF x < Head(s) THEN <<x>> \o s
    ELSE <<Head(s)>> \o Insert(x, Tail(s))

(* sorted(xs) for a list of instants *)
RECURSIVE sorted(_)
sorted(xs) ==
    IF xs = <<>> THEN <<>>
    ELSE Insert(xs[Len(xs)], sorted(SubSeq(xs, 1, Len(xs) - 1)))

(* next(filter(lambda x: x > ref, xs), None) *)
RECURSIVE FirstAfterMutGe(_, _)
FirstAfterMutGe(xs, r) ==
    IF xs = <<>> THEN None
    ELSE IF Head(xs) >= r THEN Some(Head(xs))
    ELSE FirstAfterMutGe(Tail(xs), r)

RECURSIVE FirstAfter(_, _)
FirstAfter(xs, r) ==
    IF xs = <<>> THEN None
    ELSE IF Head(xs) > r THEN Some(Head(xs))
    ELSE FirstAfter(Tail(xs), r)

(* the list "assigned" of KeyFile.next_change *)
assignedMutCreated(k) ==
    FilterSet(<<k.d_create, k.d_publish, k.d_active, k.d_inactive, k.d_delete>>)

assigned(k) ==
    FilterSet(<<k.d_publish, k.d_active, k.d_inactive, k.d_delete>>)

(* KeyFile.next_change with ref given: the instant returned, or the        *)
(* ValueError("Inconsistent Dates") raised.                                *)
next_changeMutInclusive(k, r) ==
    IF sorted(assigned(k)) = assigned(k)
    THEN [exc |-> "", val |-> FirstAfter(assigned(k), r - 1)]
    ELSE [exc |-> "ValueError", val |-> None]

next_change(k, r) ==
    IF sorted(assigned(k)) = assigned(k)
    THEN [exc |-> "", val |-> FirstAfter(assigned(k), r)]
    ELSE [exc |-> "ValueError", val |-> None]

NoResult == [exc |-> "", val |-> None]

----------------------------------------------------------------------------
(* The rotation planner, main_rotate.                                      *)

(* nowutc() during a rotate run and its re-run *)
Now == 2

(* timedelta(seconds=1) *)
second == 1

(* rank of the type field in the string order of sort_key: "" < "KSK" < "ZSK" *)
TypeRank(t) == CASE t = "" -> 0 [] t = "KSK" -> 1 [] t = "ZSK" -> 2

(* KeyFile.sort_key: "zone+type+algo+keyid" with algo and keyid zero-padded *)
(* to 3 and 5 digits, compared as strings: the order of the triples (type, *)
(* algo, keyid) for keys of one zone.                                      *)
SortKeyLess(a, b) ==
    \/ TypeRank(a.type) < TypeRank(b.type)
    \/ a.type = b.type /\ a.algo < b.algo
    \/ a.type = b.type /\ a.algo = b.algo /\ a.keyid < b.keyid

(* DnsSec.list_keys: the key files of the zone, sorted by sort_key *)
RECURSIVE list_keys(_)
list_keys(S) ==
    IF S = {} THEN <<>>
    ELSE LET first == CHOOSE x \in S : \A y \in S : x = y \/ SortKeyLess(x, y)
         IN  <<first>> \o list_keys(S \ {first})

(* the two filters of main_rotate: keys of the requested type that have a  *)
(* runtime and are not yet deleted                                         *)
QualifiedMutKeepDeleted(k, type) ==
    k.type = type /\ k.d_inactive # None

Qualified(k, type) ==
    k.type = type /\ k.d_inactive # None /\ state(k, Now) # "DEL"

FilterKeys(keys, type) == SelectSeq(keys, LAMBDA k : Qualified(k, type))

(* the sanity checks on the timing parameters: TRUE when one of them raises *)
InvalidIntervalMutOverlapOnly(a) == a.overlap >= a.lifetime

InvalidInterval(a) ==
    \/ a.prepublish < 0
    \/ a.lifetime < 0
    \/ a.postpublish < 0
    \/ a.overlap < 0
    \/ a.overlap >= a.lifetime

(* util.groupby_freeze over a list xs whose i-th element has group key     *)
(* ks[i]: itertools.groupby starts a new group whenever the key changes,   *)
(* and the dict keeps, for each key, the position of its first group and   *)
(* the contents of its last group.  The result is the list of the dict's   *)
(* items in iteration order.                                               *)
RunStarts(ks) == {i \in 1..Len(ks) : i = 1 \/ ks[i] # ks[i - 1]}

RunEnd(ks, i) ==
    CHOOSE j \in i..Len(ks) :
        /\ \A m \in i..j : ks[m] = ks[i]
        /\ (j = Len(ks) \/ ks[j + 1] # ks[i])

SetMax(S) == CHOOSE x \in S : \A y \in S : y <= x

SetMin(S) == CHOOSE x \in S : \A y \in S : x <= y

FirstRuns(ks) == {i \in RunStarts(ks) : \A j \in RunStarts(ks) : j < i => ks[j] # ks[i]}

RECURSIVE Ascending(_)
Ascending(S) ==
    IF S = {} THEN <<>> ELSE <<SetMin(S)>> \o Ascending(S \ {SetMin(S)})

groupby_freeze(xs, ks) ==
    LET firsts == Ascending(FirstRuns(ks))
        last(i) == SetMax({j \in RunStarts(ks) : ks[j] = ks[i]})
    IN  [n \in 1..Len(firsts) |->
            [k |-> ks[firsts[n]],
             g |-> SubSeq(xs, last(firsts[n]), RunEnd(ks, last(firsts[n])))]]

(* the dict lookups "key in d" and d[key] on such an item list *)
HasGroup(d, k) == \E n \in 1..Len(d) : d[n].k = k

Group(d, k) == d[CHOOSE n \in 1..Len(d) : d[n].k = k].g

(* sorted(akeys, key=lambda k: k.d_create or datetime.fromtimestamp(0)):   *)
(* the fallback is a naive datetime while parsed timestamps are aware, so  *)
(* comparing a key without created to one with created raises TypeError.   *)
TemplateRaises(akeys) ==
    /\ \E i \in 1..Len(akeys) : akeys[i].d_create = None
    /\ \E i \in 1..Len(akeys) : akeys[i].d_create # None

CreateKey(k) == IF k.d_create = None THEN 0 ELSE k.d_create[1]

(* [-1] of the stable sort: the last of the keys with the greatest created *)
TemplateMutFirst(akeys) == akeys[1]

Template(akeys) ==
    akeys[SetMax({i \in 1..Len(akeys) :
                    \A j \in 1..Len(akeys) : CreateKey(akeys[j]) <= CreateKey(akeys[i])})]

(* sorted(keys, key=lambda k: k.d_inactive): stable, ascending *)
RECURSIVE InsertByInactive(_, _)
InsertByInactive(x, s) ==
    IF s = <<>> THEN <<x>>
    ELSE IF x.d_inactive[1] < Head(s).d_inactive[1] THEN <<x>> \o s
    ELSE <<Head(s)>> \o InsertByInactive(x, Tail(s))

RECURSIVE SortByInactive(_)
SortByInactive(xs) ==
    IF xs = <<>> THEN <<>>
    ELSE InsertByInactive(xs[Len(xs)], SortByInactive(SubSeq(xs, 1, Len(xs) - 1)))

(* plan entries: [task, key, at] with at the new delete time of set_times  *)
(* or the activate_at of make_successor                                    *)
SetTimesTask(k, t) == [task |-> "set_times", key |-> k, at |-> t]

MakeSuccessorTask(k, t) == [task |-> "make_successor", key |-> k, at |-> t]

(* "active.d_delete is None or active.d_delete > ends + post_intv" *)
NeedsDeleteFixMutNoSecond(active, a) ==
    \/ active.d_delete = None
    \/ active.d_delete[1] > active.d_inactive[1] + a.postpublish

NeedsDeleteFixMutNotEqual(active, a) ==
    \/ active.d_delete = None
    \/ active.d_delete[1] # active.d_inactive[1] + a.postpublish

NeedsDeleteFix(active, a) ==
    \/ active.d_delete = None
    \/ active.d_delete[1] > (active.d_inactive[1] + second) + a.postpublish

(* successors = [k for k in akeys if k.state(ends) == "ACT"] is not empty *)
HasSuccessorMutNoSecond(active, akeys) ==
    \E i \in 1..Len(akeys) : state(akeys[i], active.d_inactive[1]) = "ACT"

HasSuccessor(active, akeys) ==
    \E i \in 1..Len(akeys) : state(akeys[i], active.d_inactive[1] + second) = "ACT"

(* the body of "for active in activekeys" *)
ActiveTasks(active, akeys, template, a) ==
    (IF NeedsDeleteFix(active, a)
     THEN <<SetTimesTask(active, active.d_inactive[1] + a.postpublish)>>
     ELSE <<>>)
    \o
    (IF ~HasSuccessor(active, akeys)
     THEN <<MakeSuccessorTask(template, active.d_inactive[1])>>
     ELSE <<>>)

(* activekeys of one algorithm group *)
ActiveKeys(akeys) ==
    LET by_state == groupby_freeze(akeys, [i \in 1..Len(akeys) |-> state(akeys[i], Now)])
    IN  IF HasGroup(by_state, "ACT") THEN SortByInactive(Group(by_state, "ACT")) ELSE <<>>

RECURSIVE TasksOf(_, _, _, _)
TasksOf(actives, akeys, template, a) ==
    IF actives = <<>> THEN <<>>
    ELSE ActiveTasks(Head(actives), akeys, template, a)
         \o TasksOf(Tail(actives), akeys, template, a)

(* the body of "for algo, akeys in by_algo.items()" *)
AlgoTasks(akeys, a) == TasksOf(ActiveKeys(akeys), akeys, Template(akeys), a)

RECURSIVE PlanGroups(_, _)
PlanGroups(groups, a) ==
    IF groups = <<>> THEN <<>>
    ELSE AlgoTasks(Head(groups).g, a) \o PlanGroups(Tail(groups), a)

ByAlgo(keys) == groupby_freeze(keys, [i \in 1..Len(keys) |-> keys[i].algo])

(* "if args.dry_run": the plan is printed and main_rotate returns 0 *)
ReportOnlyMutNever(a) == FALSE

ReportOnly(a) == a.dry_run

(* main_rotate from the key listing to the end of planning (lines 234-297) *)
(* on the key files S: the exception raised or the value returned, and the *)
(* plan.  go is TRUE when the plan is to be executed, listed is TRUE when  *)
(* the key files were read.                                                *)
PlanningZSK(S, a) ==
    LET keys == FilterKeys(list_keys(S), a.type)
        by_algo == ByAlgo(keys)
    IN  IF keys = <<>>
        THEN [ret |-> "0", plan |-> <<>>, go |-> FALSE, listed |-> TRUE]
        ELSE IF InvalidInterval(a)
        THEN [ret |-> "ValueError", plan |-> <<>>, go |-> FALSE, listed |-> TRUE]
        ELSE IF \E n \in 1..Len(by_algo) : TemplateRaises(by_algo[n].g)
        THEN [ret |-> "TypeError", plan |-> <<>>, go |-> FALSE, listed |-> TRUE]
        ELSE LET p == PlanGroups(by_algo, a)
             IN  IF p = <<>>
                 THEN [ret |-> "0", plan |-> p, go |-> FALSE, listed |-> TRUE]
                 ELSE IF ReportOnly(a)
                 THEN [ret |-> "0", plan |-> p, go |-> FALSE, listed |-> TRUE]
                 ELSE [ret |-> "none", plan |-> p, go |-> TRUE, listed |-> TRUE]

(* main_rotate up to the end of planning (lines 231-297) *)
PlanningMutLateTypeCheck(S, a) ==
    IF FilterKeys(list_keys(S), a.type) # <<>> /\ a.type # "ZSK"
    THEN [ret |-> "NotImplementedError", plan |-> <<>>, go |-> FALSE, listed |-> TRUE]
    ELSE PlanningZSK(S, a)

Planning(S, a) ==
    IF a.type # "ZSK"
    THEN [ret |-> "NotImplementedError", plan |-> <<>>, go |-> FALSE, listed |-> FALSE]
    ELSE PlanningZSK(S, a)

(* the timestamps make_successor computes for activate_at *)
SuccessorTimesMutNoOverlap(activate_at, a) ==
    [publish |-> activate_at - a.prepublish,
     activate |-> activate_at,
     inactivate |-> activate_at + a.lifetime,
     delete |-> activate_at + a.lifetime + a.postpublish]

SuccessorTimes(activate_at, a) ==
    LET activates == activate_at - a.overlap
        publishes == activates - a.prepublish
        inactivates == activates + a.lifetime
        deletes == inactivates + a.postpublish
    IN  [publish |-> publishes, activate |-> activates,
         inactivate |-> inactivates, delete |-> deletes]

(* DnsSec._call and DnsSec.list_keys as seen by the key store: the       *)
(* command, the key file it names and the -P/-A/-I/-D values given.        *)
KeyName(k) == <<k.algo, k.keyid>>

ListCall ==
    [cmd |-> "list_keys", name |-> <<>>, P |-> None, A |-> None, I |-> None, D |-> None]

(* DnsSec.key_settime(key, delete=t) *)
SetDeleteCall(k, t) ==
    [cmd |-> "dnssec-settime", name |-> KeyName(k),
     P |-> None, A |-> None, I |-> None, D |-> Some(t)]

(* DnsSec.key_settime(key, publish, activate, inactivate, delete) *)
SetAllCall(k, t) ==
    [cmd |-> "dnssec-settime", name |-> KeyName(k),
     P |-> Some(t.publish), A |-> Some(t.activate),
     I |-> Some(t.inactivate), D |-> Some(t.delete)]

(* DnsSec.key_gentemplate: dnssec-keygen -S template -i 0 *)
KeygenCall(k) ==
    [cmd |-> "dnssec-keygen", name |-> KeyName(k),
     P |-> None, A |-> None, I |-> None, D |-> None]

(* the key file named like k, as it is on disk *)
OnDisk(S, k) == CHOOSE x \in S : KeyName(x) = KeyName(k)

(* effect of dnssec-settime -D on the key files *)
WithDelete(S, k, t) ==
    (S \ {OnDisk(S, k)}) \cup {[OnDisk(S, k) EXCEPT !.d_delete = Some(t)]}

(* the key file dnssec-keygen -S writes: a successor of the template with  *)
(* the template's zone, type and algorithm, created now, published and     *)
(* activated when the template goes inactive (-i 0)                        *)
Generated(S, template, id) ==
    [type |-> template.type, algo |-> template.algo, keyid |-> id,
     d_create |-> Some(Now),
     d_publish |-> OnDisk(S, template).d_inactive,
     d_active |-> OnDisk(S, template).d_inactive,
     d_inactive |-> None, d_delete |-> None]

(* effect of dnssec-settime -P -A -I -D on the generated key *)
WithTimes(k, t) ==
    [k EXCEPT !.d_publish = Some(t.publish), !.d_active = Some(t.activate),
              !.d_inactive = Some(t.inactivate), !.d_delete = Some(t.delete)]

----------------------------------------------------------------------------
(* Inputs of the rotate runs. *)
MaxKeys == 2

ActiveTimes == {Some(0), Some(3)}

InactiveTimes == {None, Some(1), Some(3), Some(5)}

DeleteTimes == {None, Some(1), Some(5)}

(* zone-signing keys of algorithm 13, created before now, with any of      *)
(* these activation, inactivation and deletion times                       *)
PlainKeys ==
    [type : {"ZSK"}, algo : {13}, d_create : {Some(0)}, d_publish : {None},
     d_active : ActiveTimes, d_inactive : InactiveTimes, d_delete : DeleteTimes]

(* a key-signing key, a key of another algorithm, keys without or with a   *)
(* later Created line, a key with a Publish line, a key without Activate:  *)
(* each as a key that goes inactive at 3 and as one that does at 5         *)
OddKeys ==
    {[type |-> v[1], algo |-> v[2], d_create |-> v[3], d_publish |-> v[4],
      d_active |-> IF v[5] THEN w[1] ELSE None, d_inactive |-> w[2],
      d_delete |-> None] :
        v \in {<<"KSK", 13, Some(0), None, TRUE>>, <<"ZSK", 8, Some(0), None, TRUE>>,
               <<"ZSK", 13, None, None, TRUE>>, <<"ZSK", 13, Some(1), None, TRUE>>,
               <<"ZSK", 13, Some(0), Some(0), TRUE>>, <<"ZSK", 13, Some(0), None, FALSE>>},
        w \in {<<Some(0), Some(3)>>, <<Some(3), Some(5)>>}}

KeyShapes == PlainKeys \cup OddKeys

(* key ids leave room for a generated key before, between and after *)
KeyIdOf(i) == 2 * i

Stores ==
    UNION {{{[type |-> f[i].type, algo |-> f[i].algo, keyid |-> KeyIdOf(i),
              d_create |-> f[i].d_create, d_publish |-> f[i].d_publish,
              d_active |-> f[i].d_active, d_inactive |-> f[i].d_inactive,
              d_delete |-> f[i].d_delete] : i \in 1..n} :
                f \in [1..n -> KeyShapes]} : n \in 0..MaxKeys}

(* key directories of three keys, so that keys of one state can be apart   *)
(* in the key list: active keys (one created later, one with a deletion    *)
(* time), a published and an inactive key of algorithm 13, and an active   *)
(* key and two published keys of algorithm 8, one without Created line     *)
SeparatedShapes ==
    {[type |-> "ZSK", algo |-> v[1], d_create |-> v[2], d_publish |-> v[3],
      d_active |-> v[4], d_inactive |-> v[5], d_delete |-> v[6]] :
        v \in {<<13, Some(0), None, Some(0), Some(3), None>>,
               <<13, Some(1), None, Some(0), Some(5), Some(5)>>,
               <<13, Some(0), Some(0), Some(3), Some(5), None>>,
               <<13, Some(0), None, Some(0), Some(1), Some(5)>>,
               <<8, Some(0), None, Some(0), Some(3), None>>,
               <<8, None, Some(0), Some(3), Some(5), None>>,
               <<8, Some(0), Some(0), Some(3), Some(5), None>>}}

SeparatedStores ==
    {{[type |-> f[i].type, algo |-> f[i].algo, keyid |-> KeyIdOf(i),
       d_create |-> f[i].d_create, d_publish |-> f[i].d_publish,
       d_active |-> f[i].d_active, d_inactive |-> f[i].d_inactive,
       d_delete |-> f[i].d_delete] : i \in 1..(MaxKeys + 1)} :
            f \in [1..(MaxKeys + 1) -> SeparatedShapes]}

(* the ids dnssec-keygen may give a new key: any odd id not in use *)
FreshIds(S, algo) ==
    {id \in {2 * i - 1 : i \in 1..(MaxKeys + 1)} :
        \A x \in S : ~(x.algo = algo /\ x.keyid = id)}

(* --prepublish, --lifetime, --postpublish, --overlap in seconds *)
Durations ==
    [prepublish : {0, 1}, lifetime : {1, 3}, postpublish : {0, 1}, overlap : {0, 1}]

DryDurations ==
    [prepublish : {0}, lifetime : {1, 3}, postpublish : {1}, overlap : {0, 1}]

NegativeDurations ==
    {[prepublish |-> v[1], lifetime |-> v[2], postpublish |-> v[3], overlap |-> v[4]] :
        v \in {<<0 - 1, 2, 0, 0>>, <<0, 0 - 1, 0, 0 - 2>>, <<0, 2, 0 - 1, 0>>, <<0, 2, 0, 0 - 1>>}}

Namespace(type, dry, d) ==
    [type |-> type, dry_run |-> dry, prepublish |-> d.prepublish,
     lifetime |-> d.lifetime, postpublish |-> d.postpublish, overlap |-> d.overlap]

ArgSet ==
    {Namespace("ZSK", FALSE, d) : d \in Durations}
    \cup {Namespace("ZSK", TRUE, d) : d \in DryDurations}
    \cup {Namespace("ZSK", FALSE, d) : d \in NegativeDurations}
    \cup {Namespace("KSK", dry, [prepublish |-> 0, lifetime |-> 2,
                                  postpublish |-> 0, overlap |-> 0]) : dry \in BOOLEAN}

NoArgs == Namespace("", FALSE, [prepublish |-> 0, lifetime |-> 0,
                                 postpublish |-> 0, overlap |-> 0])

----------------------------------------------------------------------------
(* The recursive resolver (resolver.py).                                   *)
(*                                                                         *)
(* The network is a synthetic zone graph: the root, the TLD "tld.", the    *)
(* zone "leaf.tld." below it and a second TLD "ext." that holds the        *)
(* address of an out-of-bailiwick nameserver.  Servers are named by their  *)
(* address.                                                                *)

(* str.upper() on the names and record types the model uses *)
Upper(str) ==
    CASE str \in {"www.leaf.tld.", "WWW.LEAF.TLD."} -> "WWW.LEAF.TLD."
      [] str \in {"alias.leaf.tld.", "ALIAS.LEAF.TLD."} -> "ALIAS.LEAF.TLD."
      [] str \in {"loop.leaf.tld.", "LOOP.LEAF.TLD."} -> "LOOP.LEAF.TLD."
      [] str \in {"missing.leaf.tld.", "MISSING.LEAF.TLD."} -> "MISSING.LEAF.TLD."
      [] str \in {"empty.leaf.tld.", "EMPTY.LEAF.TLD."} -> "EMPTY.LEAF.TLD."
      [] str \in {"other.leaf.tld.", "OTHER.LEAF.TLD."} -> "OTHER.LEAF.TLD."
      [] str \in {"moved.leaf.tld.", "MOVED.LEAF.TLD."} -> "MOVED.LEAF.TLD."
      [] str \in {"long.leaf.tld.", "LONG.LEAF.TLD."} -> "LONG.LEAF.TLD."
      [] str \in {"back.leaf.tld.", "BACK.LEAF.TLD."} -> "BACK.LEAF.TLD."
      [] str \in {"ns1.leaf.tld.", "NS1.LEAF.TLD."} -> "NS1.LEAF.TLD."
      [] str \in {"ns.tld.", "NS.TLD."} -> "NS.TLD."
      [] str \in {"ns.ext.", "NS.EXT."} -> "NS.EXT."
      [] str \in {"txt", "Txt", "TXT"} -> "TXT"
      [] str \in {"mx", "MX"} -> "MX"
      [] str \in {"a", "A"} -> "A"
      [] str \in {"aaaa", "AAAA"} -> "AAAA"
      [] str \in {"ns", "NS"} -> "NS"
      [] str \in {"rrsig", "RRSIG"} -> "RRSIG"
      [] OTHER -> str

(* data.dns.ROOT_SERVERS: (host, v4, v6) of each root server *)
ROOT_SERVERS == <<[h |-> "a.root.", v4 |-> "r4", v6 |-> "r6"]>>

RootAddrs == {"r4", "r6"}
TldAddrs == {"t4", "t6"}
LeafAddrs == {"l4", "l6"}
ExtAddrs == {"x4"}
SecondaryAddrs == {"m4"}
Servers == RootAddrs \cup TldAddrs \cup LeafAddrs \cup ExtAddrs \cup SecondaryAddrs

LeafNames == {"WWW.LEAF.TLD.", "ALIAS.LEAF.TLD.", "LOOP.LEAF.TLD.",
              "MISSING.LEAF.TLD.", "NS1.LEAF.TLD.", "EMPTY.LEAF.TLD.", "OTHER.LEAF.TLD.",
              "MOVED.LEAF.TLD.", "LONG.LEAF.TLD.", "BACK.LEAF.TLD."}
TldNames == {"NS.TLD."}
ExtNames == {"NS.EXT."}

(* a DNS response as the resolver reads it: the rcode, the rrset that      *)
(* Answer finds for the question (empty: none), the target of a CNAME in   *)
(* the answer section (empty: none), and of the authority section whether  *)
(* it holds an SOA, the NS hosts it names and whether it holds any other   *)
(* record, and the address records of the additional section               *)
Response(rcode, rrset, cname, soa, ns, other, additional) ==
    [rcode |-> rcode, rrset |-> rrset, cname |-> cname, soa |-> soa,
     ns |-> ns, other |-> other, additional |-> additional]

Data(rrset) == Response("NOERROR", rrset, <<>>, FALSE, <<>>, FALSE, <<>>)
Alias(target) == Response("NOERROR", <<>>, <<target>>, FALSE, <<>>, FALSE, <<>>)
NoData == Response("NOERROR", <<>>, <<>>, TRUE, <<>>, FALSE, <<>>)
Referral(ns, additional) == Response("NOERROR", <<>>, <<>>, FALSE, ns, FALSE, additional)
Failure(rcode) == Response(rcode, <<>>, <<>>, FALSE, <<>>, FALSE, <<>>)
(* NOERROR with empty answer, authority and additional sections *)
Nothing == Response("NOERROR", <<>>, <<>>, FALSE, <<>>, FALSE, <<>>)
(* NOERROR with no answer and an authority section without SOA and NS *)
OtherAuthority == Response("NOERROR", <<>>, <<>>, FALSE, <<>>, TRUE, <<>>)

(* NOERROR with no answer and an authority section that holds the SOA of   *)
(* the zone and NS records as well, with their glue                        *)
NoDataWithNs(ns, additional) == Response("NOERROR", <<>>, <<>>, TRUE, ns, FALSE, additional)

(* "if ans.response.authority": the authority section is not empty *)
HasAuthority(rs) == rs.soa \/ rs.ns # <<>> \/ rs.other

Glue(name, rdtype, address) == [name |-> name, rdtype |-> rdtype, address |-> address]

(* the glue the root servers send along with the referral to tld. *)
TldGlue == <<Glue("ns.tld.", "A", "t4"), Glue("ns.tld.", "AAAA", "t6")>>

(* the glue the TLD servers send along with the referral to leaf.tld. *)
LeafGlue(n) ==
    CASE n.glue = "both" -> <<Glue("ns1.leaf.tld.", "A", "l4"), Glue("ns1.leaf.tld.", "AAAA", "l6")>>
      [] n.glue = "v4" -> <<Glue("ns1.leaf.tld.", "A", "l4")>>
      [] OTHER -> <<>>

(* the nameservers of leaf.tld.: ns1 in the zone itself, and in some       *)
(* networks a secondary whose name lies in ext.                            *)
LeafNs(n) == IF n.secondary THEN <<"ns1.leaf.tld.", "ns.ext.">> ELSE <<"ns1.leaf.tld.">>

(* what a zone holding leaf.tld. answers *)
LeafAnswer(n, qname, rdtype) ==
    CASE qname = "WWW.LEAF.TLD." /\ rdtype = "TXT" -> Data(<<"v=www">>)
      [] qname = "NS1.LEAF.TLD." /\ rdtype = "A" -> Data(<<"l4">>)
      [] qname = "NS1.LEAF.TLD." /\ rdtype = "AAAA" -> Data(<<"l6">>)
      [] qname = "ALIAS.LEAF.TLD." -> Alias("www.leaf.tld.")
      [] qname = "LOOP.LEAF.TLD." -> Alias("loop.leaf.tld.")
      [] qname = "MISSING.LEAF.TLD." -> Failure("NXDOMAIN")
      [] qname = "EMPTY.LEAF.TLD." -> Nothing
      [] qname = "OTHER.LEAF.TLD." -> OtherAuthority
      [] qname = "MOVED.LEAF.TLD." -> NoDataWithNs(<<"ns.tld.">>, TldGlue)
      [] qname = "LONG.LEAF.TLD." -> Failure("YXDOMAIN")
      [] qname = "BACK.LEAF.TLD." -> Referral(<<"ns.tld.">>, TldGlue)
      [] OTHER -> NoData

(* the response of the server at address where to the question *)
ServerResponse(n, where, qname, rdtype) ==
    CASE where \in RootAddrs ->
            IF qname \in LeafNames \cup TldNames
            THEN Referral(<<"ns.tld.">>, TldGlue)
            ELSE IF qname \in ExtNames
            THEN Referral(<<"ns.ext.">>, <<Glue("ns.ext.", "A", "x4")>>)
            ELSE Failure("NXDOMAIN")
      [] where \in TldAddrs ->
            IF qname \in LeafNames THEN Referral(LeafNs(n), LeafGlue(n))
            ELSE IF qname = "NS.TLD." /\ rdtype = "A" THEN Data(<<"t4">>)
            ELSE IF qname = "NS.TLD." /\ rdtype = "AAAA" THEN Data(<<"t6">>)
            ELSE IF qname \in TldNames THEN NoData
            ELSE Failure("REFUSED")
      [] where \in LeafAddrs \cup SecondaryAddrs ->
            IF qname \in LeafNames THEN LeafAnswer(n, qname, rdtype) ELSE Failure("REFUSED")
      [] where \in ExtAddrs ->
            IF qname = "NS.EXT." /\ rdtype = "A" THEN Data(<<"m4">>)
            ELSE IF qname \in ExtNames THEN NoData
            ELSE Failure("REFUSED")
      [] OTHER -> Failure("REFUSED")

(* dns.resolver.Answer: the response, its rrset and the server it is from *)
Answer(response, where) ==
    [rrset |-> response.rrset, response |-> response, nameserver |-> where]

NoAnswerYet == Answer(Failure(""), "")

(* the outcome of a resolver function: the exception raised ("" for none), *)
(* the value returned, the server a NoAnswer names, the errors a           *)
(* NoNameservers carries, the cache, the queries sent so far and, for each *)
(* of them, the call depth left in the _recursive_query that sent it       *)
Outcome(exc, ans, at, s) ==
    [exc |-> exc, ans |-> ans, at |-> at, errors |-> <<>>,
     cache |-> s.cache, log |-> s.log, levels |-> s.levels]

(* raise dns.resolver.NoNameservers(request=query, errors=errors) *)
NoNameservers(errors, s) ==
    [Outcome("NoNameservers", NoAnswerYet, "", s) EXCEPT !.errors = errors]

query_atMutTimeoutRefused(n, zone, what, where) ==
    IF where \in n.down \cup n.slow
    THEN [exc |-> "NoNameservers", ans |-> NoAnswerYet, errors |-> <<where>>]
    ELSE [exc |-> "", errors |-> <<>>,
          ans |-> Answer(ServerResponse(n, where, Upper(zone), Upper(what)), where)]

(* RecursiveResolver.query_at: one query over TCP to one server; a refused *)
(* connection becomes NoNameservers, a DNS exception of dns.query.tcp is   *)
(* raised as it is                                                         *)
query_at(n, zone, what, where) ==
    CASE where \in n.down ->
            [exc |-> "NoNameservers", ans |-> NoAnswerYet, errors |-> <<where>>]
      [] where \in n.slow -> [exc |-> "Timeout", ans |-> NoAnswerYet, errors |-> <<>>]
      [] OTHER -> [exc |-> "", errors |-> <<>>,
                   ans |-> Answer(ServerResponse(n, where, Upper(zone), Upper(what)), where)]

(* RecursiveResolver._expand_root_servers *)
expand_root_servers(v4first) ==
    LET v4s == [i \in 1..Len(ROOT_SERVERS) |-> [kind |-> "addr", addr |-> ROOT_SERVERS[i].v4, rr |-> ""]]
        v6s == [i \in 1..Len(ROOT_SERVERS) |-> [kind |-> "addr", addr |-> ROOT_SERVERS[i].v6, rr |-> ""]]
    IN  IF v4first THEN v4s \o v6s ELSE v6s \o v4s

(* RecursiveResolver._addr_from_additional: the names that have an entry *)
addr_from_additional(adds) == {adds[i].name : i \in 1..Len(adds)}

(* the addresses of one family the additional section holds for a host *)
Hints(adds, nshost, rdtype) ==
    LET hits == SelectSeq(adds, LAMBDA g : g.name = nshost /\ g.rdtype = rdtype)
    IN  [i \in 1..Len(hits) |-> [kind |-> "addr", addr |-> hits[i].address, rr |-> ""]]

(* proto_gen of _authority_ns_resolver: the candidates of one address      *)
(* family, an address from the glue or a lookup still to be made when the  *)
(* generator gets there                                                    *)
proto_genMutNoGlue(ns, adds, rr) ==
    [i \in 1..Len(ns) |-> [kind |-> "lookup", addr |-> ns[i], rr |-> rr]]

RECURSIVE proto_gen(_, _, _)
proto_gen(ns, adds, rr) ==
    IF ns = <<>> THEN <<>>
    ELSE (IF Head(ns) \in addr_from_additional(adds)
          THEN Hints(adds, Head(ns), rr)
          ELSE <<[kind |-> "lookup", addr |-> Head(ns), rr |-> rr]>>)
         \o proto_gen(Tail(ns), adds, rr)

(* RecursiveResolver._authority_ns_resolver *)
authority_ns_resolver(v4first, ns, adds) ==
    IF v4first
    THEN proto_gen(ns, adds, "A") \o proto_gen(ns, adds, "AAAA")
    ELSE proto_gen(ns, adds, "AAAA") \o proto_gen(ns, adds, "A")

(* "for a in answer: yield a.address" *)
AnswerAddrs(ans) ==
    [i \in 1..Len(ans.rrset) |-> [kind |-> "addr", addr |-> ans.rrset[i], rr |-> ""]]

(* "response tells us a better authority?": what _recursive_query does    *)
(* with a NOERROR response that holds neither the record set asked for nor *)
(* a CNAME: raise NoAnswer, recurse into the nameservers of the authority  *)
(* section, or go on with the next candidate                               *)
better_authorityMutNsFirst(rs) ==
    IF HasAuthority(rs)
    THEN IF rs.ns # <<>> THEN "recurse" ELSE "raise"
    ELSE "continue"

better_authority(rs) ==
    IF HasAuthority(rs)
    THEN IF rs.soa THEN "raise"
         ELSE IF rs.ns = <<>> THEN "raise"
         ELSE "recurse"
    ELSE "continue"

(* the branches for NXDOMAIN and YXDOMAIN: the exception raised, or none   *)
(* for any other rcode                                                     *)
rcode_raisesMutOnlyNx(rcode) ==
    IF rcode = "NXDOMAIN" THEN "NXDOMAIN" ELSE ""

rcode_raises(rcode) ==
    IF rcode = "NXDOMAIN" THEN "NXDOMAIN"
    ELSE IF rcode = "YXDOMAIN" THEN "YXDOMAIN"
    ELSE ""

(* depth of the Python call stack the model follows before RecursionError *)
MaxDepth == 12

(* RecursiveResolver.query and RecursiveResolver._recursive_query on the   *)
(* network n, with s the cache and the queries sent so far.  The candidate *)
(* nameservers are a generator: a lookup among them is made only when the  *)
(* loop gets to it.                                                        *)
RECURSIVE query(_, _, _, _, _, _)
RECURSIVE recursive_query(_, _, _, _, _, _, _)
RECURSIVE for_nameservers(_, _, _, _, _, _, _, _)

queryMutNoStore(n, v4first, s, zone, what, depth) ==
    IF depth = 0 THEN Outcome("RecursionError", NoAnswerYet, "", s)
    ELSE recursive_query(n, v4first, s, expand_root_servers(v4first), zone, what, depth - 1)

cname_restartMutSameServers(n, v4first, s, nameservers, target, what, depth) ==
    recursive_query(n, v4first, s, nameservers, target, what, depth)

(* the CNAME target handed back to the outermost call, which starts over  *)
(* with an empty stack (followed for MaxDepth queries)                     *)
cname_restartMutInPlace(n, v4first, s, nameservers, target, what, depth) ==
    IF Len(s.log) >= MaxDepth THEN Outcome("RecursionError", NoAnswerYet, "", s)
    ELSE recursive_query(n, v4first, s, expand_root_servers(v4first), target, what,
                         MaxDepth - 1)

(* return self.query(rrset[0].target.to_text(), what): the resolution of   *)
(* the CNAME target is a new call of query, whatever the nameservers of    *)
(* the loop are                                                            *)
cname_restart(n, v4first, s, nameservers, target, what, depth) ==
    query(n, v4first, s, target, what, depth)

query(n, v4first, s, zone, what, depth) ==
    LET cachekey == <<Upper(zone), Upper(what)>> IN
    IF cachekey \in DOMAIN s.cache
    THEN Outcome("", s.cache[cachekey], "", s)
    ELSE IF depth = 0 THEN Outcome("RecursionError", NoAnswerYet, "", s)
    ELSE LET r == recursive_query(n, v4first, s, expand_root_servers(v4first),
                                  zone, what, depth - 1)
         IN  IF r.exc = ""
             THEN [r EXCEPT !.cache = (cachekey :> r.ans) @@ r.cache]
             ELSE r

(* _recursive_query: errors = [] and the loop over the nameservers *)
recursive_query(n, v4first, s, nameservers, qname, what, depth) ==
    for_nameservers(n, v4first, s, nameservers, qname, what, depth, <<>>)

(* "for ns in nameservers" of _recursive_query with the errors collected   *)
(* so far, and the raise that follows the loop.  query_at has turned a     *)
(* ConnectionError into NoNameservers, which the loop passes over.         *)
for_nameservers(n, v4first, s, nameservers, qname, what, depth, errors) ==
    IF nameservers = <<>> THEN NoNameservers(errors, s)
    ELSE LET ns == Head(nameservers) IN
    IF ns.kind = "lookup"
    THEN IF depth = 0 THEN Outcome("RecursionError", NoAnswerYet, "", s)
         ELSE LET r == query(n, v4first, s, ns.addr, ns.rr, depth - 1) IN
              IF r.exc # "" THEN r
              ELSE for_nameservers(n, v4first, [cache |-> r.cache, log |-> r.log, levels |-> r.levels],
                                   AnswerAddrs(r.ans) \o Tail(nameservers),
                                   qname, what, depth, errors)
    ELSE LET q == query_at(n, qname, what, ns.addr)
             s1 == [s EXCEPT !.log = Append(s.log, [where |-> ns.addr, qname |-> qname,
                                                    what |-> what]),
                             !.levels = Append(s.levels, depth)]
             ans == q.ans
             rs == ans.response
         IN  IF q.exc = "NoNameservers"
             THEN for_nameservers(n, v4first, s1, Tail(nameservers), qname, what, depth,
                                  errors)
             ELSE IF q.exc = "ConnectionError"
             THEN for_nameservers(n, v4first, s1, Tail(nameservers), qname, what, depth,
                                  Append(errors, ns.addr))
             ELSE IF q.exc # "" THEN Outcome(q.exc, NoAnswerYet, "", s1)
             ELSE IF rs.rcode = "NOERROR"
             THEN IF ans.rrset # <<>> THEN Outcome("", ans, "", s1)
                  ELSE IF rs.cname # <<>>
                  THEN IF depth = 0 THEN Outcome("RecursionError", NoAnswerYet, "", s1)
                       ELSE cname_restart(n, v4first, s1, nameservers, rs.cname[1],
                                          what, depth - 1)
                  ELSE IF better_authority(rs) = "raise"
                  THEN Outcome("NoAnswer", NoAnswerYet, ns.addr, s1)
                  ELSE IF better_authority(rs) = "recurse"
                  THEN IF depth = 0 THEN Outcome("RecursionError", NoAnswerYet, "", s1)
                       ELSE recursive_query(n, v4first, s1,
                                authority_ns_resolver(v4first, rs.ns, rs.additional),
                                qname, what, depth - 1)
                  ELSE for_nameservers(n, v4first, s1, Tail(nameservers), qname, what,
                                       depth, errors)
             ELSE IF rcode_raises(rs.rcode) # ""
             THEN Outcome(rcode_raises(rs.rcode), NoAnswerYet, "", s1)
             ELSE for_nameservers(n, v4first, s1, Tail(nameservers), qname, what, depth,
                                  errors)

(* no resolver call has been made *)
NoCall == [zone |-> "", what |-> "", exc |-> "", ans |-> NoAnswerYet, at |-> "",
           errors |-> <<>>, levels |-> <<>>,
           hit |-> FALSE, before |-> <<>>, asked |-> {}]

(* BaseResolver._af_order *)
AfOrder(v4first) == IF v4first THEN <<"A", "AAAA">> ELSE <<"AAAA", "A">>

(* the loop of resolve_host over the address families: the first address   *)
(* of the first answer, or the exception; cache is the resolver's cache    *)
(* and tried the query calls made so far                                   *)
RECURSIVE for_af(_, _, _, _, _, _)
for_af(n, v4first, cache, hostname, afs, tried) ==
    IF afs = <<>> THEN [exc |-> "ValueError", addr |-> "", cache |-> cache, tried |-> tried]
    ELSE LET r == query(n, v4first, [cache |-> cache, log |-> <<>>, levels |-> <<>>],
                        hostname, Head(afs), MaxDepth)
             call == [what |-> Head(afs), before |-> cache, r |-> r]
         IN  IF r.exc = "" /\ r.ans.rrset # <<>>
             THEN [exc |-> "", addr |-> r.ans.rrset[1], cache |-> r.cache,
                   tried |-> Append(tried, call)]
             ELSE IF r.exc \in {"", "LifetimeTimeout", "NoAnswer"}
             THEN for_af(n, v4first, r.cache, hostname, Tail(afs), Append(tried, call))
             ELSE [exc |-> r.exc, addr |-> "", cache |-> r.cache,
                   tried |-> Append(tried, call)]

(* BaseResolver.resolve_host of a RecursiveResolver; dns.inet.is_address   *)
(* holds of the server addresses                                           *)
resolve_host(n, v4first, cache, hostname) ==
    IF hostname \in Servers
    THEN [exc |-> "", addr |-> hostname, cache |-> cache, tried |-> <<>>]
    ELSE for_af(n, v4first, cache, hostname, AfOrder(v4first), <<>>)

(* the last call was not resolve_host *)
NoHostCall == [name |-> "", exc |-> "", addr |-> "", tried |-> <<>>]

(* The resolver variables while no resolver is exercised. *)
ResolverUnused ==
    /\ net = [down |-> {}, slow |-> {}, glue |-> "both", secondary |-> FALSE]
    /\ query_cache = <<>>
    /\ sent = <<>>
    /\ lastq = NoCall
    /\ nq = 0
    /\ hostq = NoHostCall

----------------------------------------------------------------------------
(* The published key collection (lookup.py).                               *)

(* The zones a collection is asked about, their nameserver hosts in the    *)
(* order of the NS record set, and the addresses of the hosts.             *)
Zones == {"a.", "b."}
Hosts == {"ns1.", "ns2."}
NsHosts(zone) == IF zone = "a." THEN <<"ns2.", "ns1.">> ELSE <<"ns1.">>

AddrOf(host, af) ==
    CASE host = "ns1." /\ af = "A" -> "192.0.2.1"
      [] host = "ns1." /\ af = "AAAA" -> "2001:db8::1"
      [] host = "ns2." /\ af = "A" -> "192.0.2.2"
      [] host = "ns2." /\ af = "AAAA" -> "2001:db8::2"

Addresses == {AddrOf(h, af) : h \in Hosts, af \in {"A", "AAAA"}}

HostAt(addr) == CHOOSE h \in Hosts : \E af \in {"A", "AAAA"} : AddrOf(h, af) = addr

(* the address of the system resolver that answers the DS query *)
ResolverAddr == "192.0.2.53"

(* dns.inet.is_address(name) *)
is_address(name) == name \in Addresses \cup {ResolverAddr}

(* Server identities in the order Python compares the strings. *)
ServerNames ==
    <<"192.0.2.1", "192.0.2.2", "192.0.2.53", "2001:db8::1", "2001:db8::2", "ns1.", "ns2.">>

NameRank(x) == CHOOSE i \in 1..Len(ServerNames) : ServerNames[i] = x

(* sorted(set(names)) *)
RECURSIVE sorted_names(_)
sorted_names(S) ==
    IF S = {} THEN <<>>
    ELSE LET x == CHOOSE y \in S : \A z \in S : NameRank(y) <= NameRank(z)
         IN  <<x>> \o sorted_names(S \ {x})

(* The records the zones publish.  _store_ds, _store_dnskey, _store_rrsig  *)
(* format a record as "alg+tag" with fixed widths, so with one algorithm   *)
(* the strings sort as the key tags do; a record is modelled by its tag.   *)
DsRecords == <<2>>
DnskeyRecords == <<2, 1>>
RrsigRecords == <<1, 2, 1>>

(* sorted(set(store(r) for r in answer)) *)
store_sorted(records) == Ascending({records[i] : i \in 1..Len(records)})

(* ListOrError: a list of key tags or the exception that was caught *)
TagList(tags) == [exc |-> "", tags |-> tags]
Caught(exc) == [exc |-> exc, tags |-> <<>>]

(* The outcome of dns.resolver.Resolver.resolve: the answer rrset and the  *)
(* server it came from, or the exception; a NoAnswer carries the response, *)
(* of which the records of the queried type in the answer and authority    *)
(* sections are kept.                                                      *)
Resolved(rrset, nameserver) ==
    [exc |-> "", rrset |-> rrset, nameserver |-> nameserver, answer |-> <<>>, authority |-> <<>>]
Raised(exc) ==
    [exc |-> exc, rrset |-> <<>>, nameserver |-> "", answer |-> <<>>, authority |-> <<>>]
RaisedNoAnswer(answer, authority) ==
    [exc |-> "NoAnswer", rrset |-> <<>>, nameserver |-> "", answer |-> answer, authority |-> authority]

(* resolver.resolve(name, what) in the world w, at the server where or at  *)
(* the system resolver (where = "")                                        *)
resolve(w, name, what, where) ==
    CASE what = "DS" ->
            (CASE w.ds[name] = "tags" -> Resolved(DsRecords, ResolverAddr)
               [] w.ds[name] = "NoAnswer" -> RaisedNoAnswer(<<>>, <<>>)
               [] OTHER -> Raised(w.ds[name]))
      [] what = "NS" ->
            (CASE w.ns = "answer" -> Resolved(NsHosts(name), ResolverAddr)
               [] w.ns = "authority" -> RaisedNoAnswer(<<>>, NsHosts(name))
               [] w.ns = "NoAnswer" -> RaisedNoAnswer(<<>>, <<>>)
               [] OTHER -> Raised(w.ns))
      [] what = "DNSKEY" ->
            (CASE w.host[HostAt(where)].dnskey = "tags" -> Resolved(DnskeyRecords, where)
               [] w.host[HostAt(where)].dnskey = "NoAnswer" -> RaisedNoAnswer(<<>>, <<>>)
               [] OTHER -> Raised(w.host[HostAt(where)].dnskey))
      [] what = "RRSIG" ->
            (CASE w.host[HostAt(where)].rrsig = "grouped" -> RaisedNoAnswer(RrsigRecords, <<>>)
               [] w.host[HostAt(where)].rrsig = "NoAnswer" -> RaisedNoAnswer(<<>>, <<>>)
               [] OTHER -> Raised(w.host[HostAt(where)].rrsig))
      [] what \in {"A", "AAAA"} ->
            (CASE w.host[name].addr = "both" -> Resolved(<<AddrOf(name, what)>>, ResolverAddr)
               [] w.host[name].addr = "v4" ->
                    IF what = "A" THEN Resolved(<<AddrOf(name, what)>>, ResolverAddr)
                    ELSE RaisedNoAnswer(<<>>, <<>>)
               [] w.host[name].addr = "NoAnswer" -> RaisedNoAnswer(<<>>, <<>>)
               [] OTHER -> Raised(w.host[name].addr))

(* PublishedKeyCollection._lookup: a NoAnswer to an RRSIG query is read    *)
(* from the answer section, a NoAnswer to an NS query from the authority   *)
(* section, any other NoAnswer is raised again                             *)
lookup(w, zone, what, where) ==
    LET r == resolve(w, zone, what, where) IN
    IF r.exc = "NoAnswer"
    THEN IF what = "RRSIG" THEN Resolved(r.answer, "")
         ELSE IF what = "NS" THEN Resolved(r.authority, "")
         ELSE r
    ELSE r

(* a DNS lookup as it is logged *)
Lookup(name, what, where) == [name |-> name, what |-> what, where |-> where]

(* PublishedKeyCollection._resolve: the address queries it makes and the   *)
(* first address found, or the exception it ends with                      *)
RECURSIVE resolve_af(_, _, _, _)
resolve_af(w, name, af_order, log) ==
    IF af_order = <<>> THEN [exc |-> "ValueError", addr |-> "", log |-> log]
    ELSE LET af == Head(af_order)
             r == resolve(w, name, af, "")
             log1 == Append(log, Lookup(name, af, ""))
         IN  IF r.exc = ""
             THEN IF r.rrset # <<>> THEN [exc |-> "", addr |-> r.rrset[1], log |-> log1]
                  ELSE resolve_af(w, name, Tail(af_order), log1)
             ELSE IF r.exc \in {"LifetimeTimeout", "NoAnswer"}
             THEN resolve_af(w, name, Tail(af_order), log1)
             ELSE [exc |-> r.exc, addr |-> "", log |-> log1]

resolve_addr(w, v4first, name, log) ==
    IF is_address(name) THEN [exc |-> "", addr |-> name, log |-> log]
    ELSE resolve_af(w, name, IF v4first THEN <<"A", "AAAA">> ELSE <<"AAAA", "A">>, log)

(* PublishedKeyCollection._get_ns_list *)
get_ns_list(w, explicit, zone, log) ==
    IF explicit # <<>> THEN [exc |-> "", servers |-> explicit, log |-> log]
    ELSE LET r == lookup(w, zone, "NS", "") IN
         [exc |-> r.exc, servers |-> r.rrset, log |-> Append(log, Lookup(zone, "NS", ""))]

(* the result of one lookup as query_zone stores it *)
Stored(r) == IF r.exc = "" THEN TagList(store_sorted(r.rrset)) ELSE Caught(r.exc)

(* dict[zone][ns] = value *)
Put(map, zone, ns, value) == [map EXCEPT ![zone] = (ns :> value) @@ map[zone]]

(* dict.setdefault(zone, dict()) *)
setdefault(map, zone) == IF zone \in DOMAIN map THEN map ELSE (zone :> <<>>) @@ map

(* the collection: its attributes, the lookups of the running call and the *)
(* exception the call ended with                                           *)
Collection(kz, ds, dnskey, signers, used, log, exc) ==
    [known_zones |-> kz, zone_ds |-> ds, zone_dnskey |-> dnskey, zone_signers |-> signers,
     used_resolver |-> used, log |-> log, exc |-> exc]

(* the loop of query_zone over the servers still to be asked *)
RECURSIVE query_servers(_, _, _, _, _)
query_servers(w, v4first, c, zone, servers) ==
    IF servers = <<>> THEN [c EXCEPT !.known_zones = @ \cup {zone}]
    ELSE LET ns == Head(servers)
             a == resolve_addr(w, v4first, ns, c.log)
         IN  IF a.exc # "" THEN [c EXCEPT !.log = a.log, !.exc = a.exc]
             ELSE LET dnskey == lookup(w, zone, "DNSKEY", a.addr)
                      rrsig == lookup(w, zone, "RRSIG", a.addr)
                      c1 == [c EXCEPT
                                !.zone_dnskey = Put(@, zone, ns, Stored(dnskey)),
                                !.zone_signers = Put(@, zone, ns, Stored(rrsig)),
                                !.log = a.log \o <<Lookup(zone, "DNSKEY", a.addr),
                                                   Lookup(zone, "RRSIG", a.addr)>>]
                  IN  query_servers(w, v4first, c1, zone, Tail(servers))

(* PublishedKeyCollection.query_zone *)
query_zone(w, v4first, explicit, c, zone) ==
    IF zone \in c.known_zones THEN c
    ELSE LET ds == lookup(w, zone, "DS", "")
             c1 == [c EXCEPT
                       !.used_resolver = IF ds.exc = "" THEN <<ds.nameserver>> ELSE @,
                       !.zone_ds = (zone :> Stored(ds)) @@ @,
                       !.log = Append(@, Lookup(zone, "DS", ""))]
             l == get_ns_list(w, explicit, zone, c1.log)
         IN  IF l.exc # "" THEN [c1 EXCEPT !.log = l.log, !.exc = l.exc]
             ELSE query_servers(w, v4first,
                                [c1 EXCEPT !.zone_dnskey = setdefault(@, zone),
                                           !.zone_signers = setdefault(@, zone),
                                           !.log = l.log],
                                zone, l.servers)

(* PublishedKeyCollection.contacted_servers: None is the empty tuple *)
contacted_servers(dnskey, used) ==
    <<used>> \o [i \in 1..Cardinality(UNION {DOMAIN dnskey[z] : z \in DOMAIN dnskey}) |->
                    <<sorted_names(UNION {DOMAIN dnskey[z] : z \in DOMAIN dnskey})[i]>>]

(* no collection call has been made *)
NoZoneCall == [zone |-> "", exc |-> "", known |-> FALSE,
               before |-> Collection({}, <<>>, <<>>, <<>>, <<>>, <<>>, "")]

(* a world where every server answers *)
NormalHost == [addr |-> "both", dnskey |-> "tags", rrsig |-> "grouped"]
NormalWorld == [ds |-> [z \in Zones |-> "tags"], ns |-> "answer", host |-> [h \in Hosts |-> NormalHost]]

(* The collection variables while no collection is exercised. *)
LookupIdle ==
    /\ world = NormalWorld
    /\ explicit_nameservers = <<>>
    /\ known_zones = {}
    /\ zone_ds = <<>>
    /\ zone_dnskey = <<>>
    /\ zone_signers = <<>>
    /\ used_resolver = <<>>
    /\ lastz = NoZoneCall
    /\ lookups = <<>>
    /\ contacted = <<>>
    /\ nz = 0

----------------------------------------------------------------------------
(* The stub resolver (resolver.py, StubResolver).                          *)

(* an rrset of a response section *)
RRset(name, rdclass, rdtype, items) ==
    [name |-> name, rdclass |-> rdclass, rdtype |-> rdtype, items |-> items]

(* the question of a response: the name, class IN and the type asked for *)
Question(zone, what) == [name |-> zone, rdclass |-> "IN", rdtype |-> Upper(what)]

find_rrsetsMutAnyOwner(q, section) ==
    IF section = <<>> THEN <<>>
    ELSE LET f[i \in 0..Len(section)] ==
                 IF i = 0 THEN <<>>
                 ELSE f[i-1] \o (IF section[i].rdclass = q.rdclass /\ section[i].rdtype = q.rdtype
                                 THEN section[i].items ELSE <<>>)
         IN  f[Len(section)]

(* find_rrsets: the records of the rrsets of a section whose name, class   *)
(* and type are those of the question, in the order of the section         *)
RECURSIVE find_rrsets(_, _)
find_rrsets(q, section) ==
    IF section = <<>> THEN <<>>
    ELSE (IF /\ Head(section).name = q.name
             /\ Head(section).rdclass = q.rdclass
             /\ Head(section).rdtype = q.rdtype
          THEN Head(section).items ELSE <<>>)
         \o find_rrsets(q, Tail(section))

(* what dns.resolver.Resolver.resolve does with the question: it returns   *)
(* an Answer, raises NoAnswer carrying the response, or raises another     *)
(* exception                                                               *)
Resolves(rrset, nameserver) ==
    [exc |-> "", rrset |-> rrset, nameserver |-> nameserver, answer |-> <<>>, authority |-> <<>>]
ResolveNoAnswer(answer, authority) ==
    [exc |-> "NoAnswer", rrset |-> <<>>, nameserver |-> "", answer |-> answer,
     authority |-> authority]
ResolveRaises(exc) ==
    [exc |-> exc, rrset |-> <<>>, nameserver |-> "", answer |-> <<>>, authority |-> <<>>]

(* what a call of the stub resolver gives: the records returned and, for   *)
(* an Answer, the server it is from, or the exception and the nameserver   *)
(* set on it                                                               *)
StubResult(exc, records, nameserver) ==
    [exc |-> exc, records |-> records, nameserver |-> nameserver]

(* StubResolver._query with res.nameservers = nameservers and out what     *)
(* res.resolve(zone, what, tcp=True) does                                  *)
stub_query_inner(zone, what, nameservers, out) ==
    IF out.exc = "" THEN StubResult("", out.rrset, out.nameserver)
    ELSE IF out.exc = "NoAnswer"
    THEN LET q == Question(zone, what) IN
         IF q.rdtype = "RRSIG" THEN StubResult("", find_rrsets(q, out.answer), "")
         ELSE IF q.rdtype = "NS" THEN StubResult("", find_rrsets(q, out.authority), "")
         ELSE StubResult("NoAnswer", <<>>, nameservers[Len(nameservers)])
    ELSE StubResult(out.exc, <<>>, "")

(* the nameservers of dns.resolver.Resolver() as configured by the system *)
SystemNameservers == <<"127.0.0.53">>

(* StubResolver.query_at *)
stub_query_at(servers, zone, what, where, out) ==
    stub_query_inner(zone, what,
                     IF where # "" THEN <<where>>
                     ELSE IF servers # <<>> THEN servers
                     ELSE SystemNameservers,
                     out)

(* StubResolver.query *)
stub_query(servers, zone, what, out) ==
    stub_query_inner(zone, what, IF servers # <<>> THEN servers ELSE SystemNameservers, out)

(* no stub resolver call has been made *)
NoStubCall == [op |-> "", servers |-> <<>>, zone |-> "", what |-> "", where |-> "",
               out |-> ResolveRaises(""), result |-> StubResult("", <<>>, "")]

StubIdle == stubq = NoStubCall

(* no thread calls the resolver *)
NoThreads == <<>>

ThreadsIdle == thr = NoThreads

(* The resolver and collection variables while neither is exercised. *)
DnsIdle ==
    /\ ResolverUnused
    /\ prefer_v4 = FALSE
    /\ LookupIdle
    /\ StubIdle
    /\ ThreadsIdle

----------------------------------------------------------------------------
(* Relative intervals (dtutil.py).  A str is a sequence of one-character   *)
(* strings.                                                                *)

(* dtutil.py:28-33 *)
MINSEC == 60
HOURSEC == MINSEC * 60
DAYSEC == HOURSEC * 24
WEEKSEC == DAYSEC * 7
MONTHSEC == DAYSEC * 30
YEARSEC == DAYSEC * 365

DigitChars == {"0", "1", "2", "3", "5", "6", "7", "9"}

DigitValue(c) ==
    CASE c = "0" -> 0 [] c = "1" -> 1 [] c = "2" -> 2 [] c = "3" -> 3
      [] c = "5" -> 5 [] c = "6" -> 6 [] c = "7" -> 7 [] c = "9" -> 9

(* str.strip() *)
RECURSIVE lstrip(_)
lstrip(s) == IF s # <<>> /\ Head(s) = " " THEN lstrip(Tail(s)) ELSE s

RECURSIVE rstrip(_)
rstrip(s) == IF s # <<>> /\ s[Len(s)] = " " THEN rstrip(SubSeq(s, 1, Len(s) - 1)) ELSE s

strip(s) == rstrip(lstrip(s))

(* the value of a run of decimal digits, single underscores allowed        *)
(* between digits; -1 when the text is not of that form.  acc is the value *)
(* read so far, after is "start", "digit" or "underscore".                 *)
RECURSIVE digits(_, _, _)
digits(s, acc, after) ==
    IF s = <<>> THEN (IF after = "digit" THEN acc ELSE -1)
    ELSE IF Head(s) \in DigitChars THEN digits(Tail(s), acc * 10 + DigitValue(Head(s)), "digit")
    ELSE IF Head(s) = "_" /\ after = "digit" THEN digits(Tail(s), acc, "underscore")
    ELSE -1

(* int(text): the value, or ValueError *)
IntOf(n) == [exc |-> "", val |-> n]
IntError == [exc |-> "ValueError", val |-> 0]

int(text) ==
    LET t == strip(text)
        signed == t # <<>> /\ Head(t) \in {"+", "-"}
        n == digits(IF signed THEN Tail(t) ELSE t, 0, "start")
    IN  IF n < 0 THEN IntError
        ELSE IF signed /\ Head(t) = "-" THEN IntOf(0 - n)
        ELSE IntOf(n)

(* datetime.timedelta holds days, seconds (and microseconds), the seconds  *)
(* in 0..86399, and raises OverflowError when the days leave               *)
(* -999999999..999999999.                                                  *)
MaxDays == 10^9 - 1

Delta(days, seconds) == [exc |-> "", days |-> days, seconds |-> seconds]
DeltaError(exc) == [exc |-> exc, days |-> 0, seconds |-> 0]

Abs(n) == IF n < 0 THEN 0 - n ELSE n

(* timedelta(unit=n) for a unit of len seconds: the days are               *)
(* compared with the limit before they are multiplied out, so that every   *)
(* number of the computation stays below 2^31                              *)
timedelta(n, len) ==
    IF len < DAYSEC
    THEN LET per == DAYSEC \div len IN
         IF Abs(n \div per) > MaxDays THEN DeltaError("OverflowError")
         ELSE Delta(n \div per, (n % per) * len)
    ELSE LET k == len \div DAYSEC IN
         IF Abs(n) > MaxDays \div k THEN DeltaError("OverflowError")
         ELSE Delta(n * k, 0)

(* inp.endswith(suffix) and inp[:-len(suffix)] *)
endswith(text, suffix) ==
    Len(text) >= Len(suffix) /\ SubSeq(text, Len(text) - Len(suffix) + 1, Len(text)) = suffix

withoutlast(text, k) == SubSeq(text, 1, Len(text) - k)

(* the branches of parse_datetime_relative: int(inp[:-k]) of the unit *)
scaled(text, k, len) ==
    LET n == int(withoutlast(text, k)) IN
    IF n.exc # "" THEN DeltaError(n.exc) ELSE timedelta(n.val, len)

monthsMutMinutes(text) == scaled(text, 1, MINSEC)

(* timedelta(days=int(inp[:-1]) * 30) *)
months(text) == scaled(text, 1, MONTHSEC)

(* dtutil.parse_datetime_relative *)
parse_datetime_relative(text) ==
    IF int(text).exc = "" THEN timedelta(int(text).val, 1)
    ELSE IF endswith(text, <<"m", "i">>) THEN scaled(text, 2, MINSEC)
    ELSE IF endswith(text, <<"h">>) THEN scaled(text, 1, HOURSEC)
    ELSE IF endswith(text, <<"d">>) THEN scaled(text, 1, DAYSEC)
    ELSE IF endswith(text, <<"w">>) THEN scaled(text, 1, WEEKSEC)
    ELSE IF endswith(text, <<"m">>) THEN months(text)
    ELSE IF endswith(text, <<"y">>) THEN scaled(text, 1, YEARSEC)
    ELSE DeltaError("ValueError")

(* nothing has been parsed *)
NotParsed == DeltaError("none")

(* The parser variables while no interval is parsed. *)
ParseIdle ==
    /\ inp = <<>>
    /\ delta = NotParsed

----------------------------------------------------------------------------
(* The rotate runs. *)

(* The lifecycle variables while only rotate runs are exercised. *)
LifecycleIdle ==
    /\ key = [d_create |-> None, d_publish |-> None, d_active |-> None,
              d_inactive |-> None, d_delete |-> None]
    /\ ref = 0
    /\ op = "off"
    /\ st = ""
    /\ nc = NoResult
    /\ hist = <<>>

InitRotate ==
    /\ store \in Stores \cup SeparatedStores
    /\ args = NoArgs
    /\ pc = "start"
    /\ plan = <<>>
    /\ todo = <<>>
    /\ ret = "none"
    /\ calls = <<>>
    /\ run = 1
    /\ seen = <<>>
    /\ LifecycleIdle
    /\ DnsIdle
    /\ ParseIdle

(* main_rotate up to the start of the execution loop (lines 231-297): the  *)
(* first run takes any arguments, the re-run the same ones.                *)
Rotate ==
    /\ pc = "start"
    /\ \E a \in (IF run = 1 THEN ArgSet ELSE {args}) :
      \E r \in {Planning(store, a)} :
        /\ args' = a
        /\ plan' = r.plan
        /\ todo' = IF r.go THEN r.plan ELSE <<>>
        /\ ret' = r.ret
        /\ pc' = IF r.go THEN "exec" ELSE "done"
        /\ calls' = IF r.listed THEN <<ListCall>> ELSE <<>>
        /\ seen' = Append(seen, [store |-> store, plan |-> r.plan, ret |-> "none"])
    /\ UNCHANGED <<store, run, keyVars, dnsVars, dtVars>>

(* what follows a task that returned 0 (lines 320-325) *)
Continue ==
    /\ todo' = Tail(todo)
    /\ pc' = IF Tail(todo) = <<>> THEN "done" ELSE "exec"
    /\ ret' = IF Tail(todo) = <<>> THEN "0" ELSE "none"

(* what follows a task that returned 2: main_rotate returns it *)
AbortMutKeepGoing ==
    /\ todo' = Tail(todo)
    /\ pc' = IF Tail(todo) = <<>> THEN "done" ELSE "exec"
    /\ ret' = "2"

Abort ==
    /\ todo' = todo
    /\ pc' = "done"
    /\ ret' = "2"

(* the task set_times (lines 299-305): dnssec-settime -D succeeds or fails *)
ExecSetTimes ==
    /\ pc = "exec"
    /\ Head(todo).task = "set_times"
    /\ calls' = Append(calls, SetDeleteCall(Head(todo).key, Head(todo).at))
    /\ \/ /\ store' = WithDelete(store, Head(todo).key, Head(todo).at)
          /\ Continue
       \/ /\ store' = store
          /\ Abort
    /\ UNCHANGED <<args, plan, run, seen, keyVars, dnsVars, dtVars>>

(* the task make_successor (lines 307-318): dnssec-keygen fails, or writes *)
(* a key file with a new id; then dnssec-settime on that key fails or sets *)
(* the four timestamps; then set_perms fails or succeeds                   *)
ExecMakeSuccessor ==
    /\ pc = "exec"
    /\ Head(todo).task = "make_successor"
    /\ LET template == Head(todo).key
           times == SuccessorTimes(Head(todo).at, args)
       IN  \/ /\ calls' = Append(calls, KeygenCall(template))
              /\ store' = store
              /\ Abort
           \/ \E id \in FreshIds(store, template.algo) :
                LET new_key == Generated(store, template, id) IN
                /\ calls' = calls \o <<KeygenCall(template), SetAllCall(new_key, times)>>
                /\ \/ /\ store' = store \cup {new_key}
                      /\ Abort
                   \/ /\ store' = store \cup {WithTimes(new_key, times)}
                      /\ Abort
                   \/ /\ store' = store \cup {WithTimes(new_key, times)}
                      /\ Continue
    /\ UNCHANGED <<args, plan, run, seen, keyVars, dnsVars, dtVars>>

(* after a run that applied its whole plan, the operator runs rotate again *)
(* with the same arguments, nowutc() being the same                        *)
Rerun ==
    /\ pc = "done"
    /\ run = 1
    /\ ret = "0"
    /\ plan # <<>>
    /\ ~args.dry_run
    /\ run' = 2
    /\ pc' = "start"
    /\ plan' = <<>>
    /\ todo' = <<>>
    /\ ret' = "none"
    /\ calls' = <<>>
    /\ seen' = [seen EXCEPT ![1].ret = ret]
    /\ UNCHANGED <<store, args, keyVars, dnsVars, dtVars>>

NextRotate == Rotate \/ ExecSetTimes \/ ExecMakeSuccessor \/ Rerun

SpecRotate == InitRotate /\ [][NextRotate]_vars

----------------------------------------------------------------------------
(* The rotate variables while only the lifecycle functions are exercised. *)
RotateIdle ==
    /\ store = {}
    /\ args = [type |-> "ZSK", dry_run |-> FALSE, prepublish |-> 0,
               lifetime |-> 0, postpublish |-> 0, overlap |-> 0]
    /\ pc = "off"
    /\ plan = <<>>
    /\ todo = <<>>
    /\ ret = "none"
    /\ calls = <<>>
    /\ run = 0
    /\ seen = <<>>

(* A key file has been loaded; nothing has been asked of it yet. *)
Init ==
    /\ key \in KeyFiles
    /\ ref = 0
    /\ op = "new"
    /\ st = ""
    /\ nc = NoResult
    /\ hist = <<>>
    /\ RotateIdle
    /\ ParseIdle
    /\ DnsIdle

(* key.state(ref): ref=None stands for nowutc(), any instant.  The        *)
(* function is pure and the key is never changed, so it is called on a     *)
(* fresh key or after another state call.                                  *)
CallState ==
    /\ op \in {"new", "state"}
    /\ \E now \in Times : \E r \in {None, Some(now)} :
        LET t == IF r = None THEN now ELSE r[1] IN
        /\ ref' = t
        /\ st' = state(key, t)
        /\ op' = "state"
        /\ nc' = NoResult
        /\ hist' = <<>>
        /\ UNCHANGED <<key, rotVars, dnsVars, dtVars>>

(* key.next_change(ref): ref=None stands for nowutc(), any instant.  hist  *)
(* starts with the reference time of the call.                             *)
CallNextChange ==
    /\ op = "new"
    /\ \E now \in Times : \E r \in {None, Some(now)} :
        LET t == IF r = None THEN now ELSE r[1] IN
        /\ ref' = t
        /\ nc' = next_change(key, t)
        /\ op' = "next_change"
        /\ st' = ""
        /\ hist' = <<t>>
        /\ UNCHANGED <<key, rotVars, dnsVars, dtVars>>

(* r := key.next_change(r), fed with the instant the last call returned. *)
IterateNextChange ==
    /\ op \in {"next_change", "iterate"}
    /\ nc.exc = ""
    /\ nc.val # None
    /\ ref' = nc.val[1]
    /\ nc' = next_change(key, nc.val[1])
    /\ hist' = Append(hist, nc.val[1])
    /\ op' = "iterate"
    /\ UNCHANGED <<key, st, rotVars, dnsVars, dtVars>>

Next == CallState \/ CallNextChange \/ IterateNextChange

Spec == Init /\ [][Next]_vars

----------------------------------------------------------------------------
(* The resolver runs.                                                      *)

(* number of resolver calls in a behaviour *)
MaxQueries == 2

(* the networks: at most two servers refuse connections, or the query to  *)
(* one server ends in a DNS exception of dns.query.tcp (a timeout, a       *)
(* malformed response), written "Timeout", while at most one other server  *)
(* refuses; the referral to leaf.tld. carries glue of both families, of    *)
(* IPv4 only, or none; the zone may have a secondary named in another TLD  *)
DownSets == {d \in SUBSET Servers : Cardinality(d) <= 2}

SlowAddrs == {"r4", "t6", "l4", "l6", "x4"}

Outages ==
    {[down |-> d, slow |-> {}] : d \in DownSets}
    \cup {o \in [down : DownSets, slow : {{a} : a \in SlowAddrs}] :
            Cardinality(o.down) <= 1 /\ o.down \cap o.slow = {}}

Networks ==
    {[down |-> o.down, slow |-> o.slow, glue |-> g, secondary |-> x] :
        o \in Outages, g \in {"both", "v4", "none"}, x \in BOOLEAN}

(* what callers ask the resolver for *)
Questions ==
    {<<"www.leaf.tld.", "TXT">>, <<"WWW.LEAF.TLD.", "txt">>, <<"alias.leaf.tld.", "TXT">>,
     <<"www.leaf.tld.", "MX">>, <<"missing.leaf.tld.", "TXT">>, <<"ns1.leaf.tld.", "A">>,
     <<"empty.leaf.tld.", "TXT">>, <<"other.leaf.tld.", "TXT">>,
     <<"moved.leaf.tld.", "TXT">>, <<"long.leaf.tld.", "TXT">>, <<"back.leaf.tld.", "TXT">>,
     <<"loop.leaf.tld.", "TXT">>}

InitResolve ==
    /\ net \in Networks
    /\ prefer_v4 \in BOOLEAN
    /\ query_cache = <<>>
    /\ sent = <<>>
    /\ lastq = NoCall
    /\ nq = 0
    /\ hostq = NoHostCall
    /\ LookupIdle
    /\ StubIdle
    /\ ThreadsIdle
    /\ LifecycleIdle
    /\ RotateIdle
    /\ ParseIdle

(* resolver.query(zone, what) *)
Query ==
    /\ nq < MaxQueries
    /\ \E question \in Questions :
       \E r \in {query(net, prefer_v4, [cache |-> query_cache, log |-> <<>>, levels |-> <<>>],
                       question[1], question[2], MaxDepth)} :
        /\ query_cache' = r.cache
        /\ sent' = r.log
        /\ lastq' = [zone |-> question[1], what |-> question[2], exc |-> r.exc,
                    ans |-> r.ans, at |-> r.at, errors |-> r.errors, levels |-> r.levels,
                    hit |-> <<Upper(question[1]), Upper(question[2])>> \in DOMAIN query_cache,
                    before |-> query_cache,
                    asked |-> IF nq = 0 THEN {}
                              ELSE lastq.asked \cup {<<Upper(lastq.zone), Upper(lastq.what)>>}]
    /\ nq' = nq + 1
    /\ hostq' = NoHostCall
    /\ UNCHANGED <<net, prefer_v4, lookVars, stubVars, thrVars, keyVars, rotVars, dtVars>>

(* the hosts callers ask the address of: nameserver names and an address *)
HostNames == {"ns.ext.", "ns1.leaf.tld.", "l4"}

(* resolver.resolve_host(hostname); the last of its query calls is kept as *)
(* the last call of the resolver                                           *)
ResolveHost ==
    /\ nq < MaxQueries
    /\ \E hostname \in HostNames :
       \E r \in {resolve_host(net, prefer_v4, query_cache, hostname)} :
        /\ hostq' = [name |-> hostname, exc |-> r.exc, addr |-> r.addr,
                     tried |-> [i \in 1..Len(r.tried) |->
                                    [what |-> r.tried[i].what, exc |-> r.tried[i].r.exc]]]
        /\ query_cache' = r.cache
        /\ IF r.tried = <<>> THEN UNCHANGED <<sent, lastq, nq>>
           ELSE \E c \in {r.tried[Len(r.tried)]} :
                /\ sent' = c.r.log
                /\ lastq' = [zone |-> hostname, what |-> c.what, exc |-> c.r.exc,
                            ans |-> c.r.ans, at |-> c.r.at, errors |-> c.r.errors,
                            levels |-> c.r.levels,
                            hit |-> <<Upper(hostname), Upper(c.what)>> \in DOMAIN c.before,
                            before |-> c.before,
                            asked |-> (IF nq = 0 THEN {}
                                       ELSE lastq.asked
                                            \cup {<<Upper(lastq.zone), Upper(lastq.what)>>})
                                      \cup {<<Upper(hostname), Upper(r.tried[i].what)>> :
                                                i \in 1..(Len(r.tried) - 1)}]
                /\ nq' = nq + 1
    /\ UNCHANGED <<net, prefer_v4, lookVars, stubVars, thrVars, keyVars, rotVars, dtVars>>

NextResolve == Query \/ ResolveHost

SpecResolve == InitResolve /\ [][NextResolve]_vars

----------------------------------------------------------------------------
(* The collection runs.                                                    *)

(* number of collection calls in a behaviour *)
MaxCalls == 3

(* what a nameserver host can be like: its address records, and what it    *)
(* answers to the DNSKEY and RRSIG queries                                 *)
HostProfiles ==
    [addr : {"both", "v4", "NoAnswer", "LifetimeTimeout", "NXDOMAIN"},
     dnskey : {"tags", "NoAnswer", "LifetimeTimeout"},
     rrsig : {"grouped", "NoAnswer", "LifetimeTimeout"}]

(* at most one host is out of the ordinary *)
HostMaps == {m \in [Hosts -> HostProfiles] : Cardinality({h \in Hosts : m[h] # NormalHost}) <= 1}

Worlds ==
    [ds : [Zones -> {"tags", "NoAnswer", "LifetimeTimeout"}],
     ns : {"answer", "authority", "NoAnswer", "LifetimeTimeout"},
     host : HostMaps]

(* set_explicit_nameservers was not called, or with a name and an address *)
ExplicitLists == {<<>>, <<"ns2.", "192.0.2.1">>}

InitLookup ==
    /\ world \in Worlds
    /\ explicit_nameservers \in ExplicitLists
    /\ prefer_v4 \in BOOLEAN
    /\ known_zones = {}
    /\ zone_ds = <<>>
    /\ zone_dnskey = <<>>
    /\ zone_signers = <<>>
    /\ used_resolver = <<>>
    /\ lastz = NoZoneCall
    /\ lookups = <<>>
    /\ contacted = <<>>
    /\ nz = 0
    /\ ResolverUnused
    /\ StubIdle
    /\ ThreadsIdle
    /\ LifecycleIdle
    /\ RotateIdle
    /\ ParseIdle

(* the collection as it is *)
Current == Collection(known_zones, zone_ds, zone_dnskey, zone_signers, used_resolver, <<>>, "")

(* key_collection.query_zone(zone) *)
QueryZone ==
    /\ nz < MaxCalls
    /\ \E zone \in Zones :
       \E c \in {query_zone(world, prefer_v4, explicit_nameservers, Current, zone)} :
        /\ known_zones' = c.known_zones
        /\ zone_ds' = c.zone_ds
        /\ zone_dnskey' = c.zone_dnskey
        /\ zone_signers' = c.zone_signers
        /\ used_resolver' = c.used_resolver
        /\ lookups' = c.log
        /\ lastz' = [zone |-> zone, exc |-> c.exc, known |-> zone \in known_zones,
                    before |-> Current]
    /\ contacted' = <<>>
    /\ nz' = nz + 1
    /\ UNCHANGED <<world, explicit_nameservers, resVars, stubVars, thrVars, keyVars, rotVars, dtVars>>

(* key_collection.contacted_servers() *)
ContactedServers ==
    /\ nz < MaxCalls
    /\ contacted' = contacted_servers(zone_dnskey, used_resolver)
    /\ nz' = nz + 1
    /\ UNCHANGED <<world, explicit_nameservers, pkcVars, lastz, lookups, resVars, stubVars, thrVars,
                   keyVars, rotVars, dtVars>>

NextLookup == QueryZone \/ ContactedServers

SpecLookup == InitLookup /\ [][NextLookup]_vars


----------------------------------------------------------------------------
(* The interval parser.                                                    *)

(* the texts: a prefix, a numeral and an ending *)
Prefixes == {<<>>, <<"-">>, <<"+">>, <<" ">>, <<"x">>}

Numerals ==
    {<<>>, <<"0">>, <<"5">>, <<"1", "5">>, <<"1", "_", "5">>, <<"5", "_">>,
     <<"2", "7", "3", "9", "7", "2", "6">>, <<"2", "7", "3", "9", "7", "2", "7">>}

Endings ==
    {<<>>, <<"m", "i">>, <<"h">>, <<"d">>, <<"w">>, <<"m">>, <<"y">>,
     <<"i">>, <<"m", "m">>, <<"h", "d">>, <<" ">>, <<"x">>, <<"s">>, <<"i", "m">>,
     <<" ", "m", "i">>, <<"H">>}

Inputs == {a \o b \o c : a \in Prefixes, b \in Numerals, c \in Endings}

InitParse ==
    /\ inp \in Inputs
    /\ delta = NotParsed
    /\ LifecycleIdle
    /\ RotateIdle
    /\ DnsIdle

(* parse_datetime_relative(inp) *)
Parse ==
    /\ delta = NotParsed
    /\ delta' = parse_datetime_relative(inp)
    /\ UNCHANGED <<inp, keyVars, rotVars, dnsVars>>

NextParse == Parse

SpecParse == InitParse /\ [][NextParse]_vars

----------------------------------------------------------------------------
(* Threads that call query on one RecursiveResolver.  A thread may be      *)
(* preempted between the statements of query and while _recursive_query    *)
(* waits for the network.                                                  *)

Threads == {1, 2}

(* a thread that has not called yet *)
Idle == [pc |-> "idle", zone |-> "", what |-> "", value |-> NoAnswerYet, exc |-> "",
         recursed |-> FALSE, result |-> NoAnswerYet]

(* the networks and questions of the threads *)
ThreadNetworks == {n \in Networks : n.down \subseteq {"l6"} /\ n.slow = {} /\ ~n.secondary}

ThreadQuestions ==
    {<<"www.leaf.tld.", "TXT">>, <<"WWW.LEAF.TLD.", "txt">>, <<"missing.leaf.tld.", "TXT">>,
     <<"ns1.leaf.tld.", "A">>}

InitThreads ==
    /\ net \in ThreadNetworks
    /\ prefer_v4 \in BOOLEAN
    /\ query_cache = <<>>
    /\ thr = [t \in Threads |-> Idle]
    /\ sent = <<>>
    /\ lastq = NoCall
    /\ nq = 0
    /\ hostq = NoHostCall
    /\ LookupIdle
    /\ StubIdle
    /\ LifecycleIdle
    /\ RotateIdle
    /\ ParseIdle

(* the cache key of the call of thread t *)
KeyOf(t) == <<Upper(thr[t].zone), Upper(thr[t].what)>>

(* query, lines 99-100: the key and the test "key not in self._query_cache" *)
Call(t) ==
    /\ thr[t].pc = "idle"
    /\ \E question \in ThreadQuestions :
        thr' = [thr EXCEPT ![t] =
                    [@ EXCEPT !.zone = question[1], !.what = question[2],
                              !.pc = IF <<Upper(question[1]), Upper(question[2])>>
                                          \in DOMAIN query_cache
                                      THEN "return" ELSE "recurse"]]
    /\ UNCHANGED <<net, prefer_v4, query_cache, sent, lastq, nq, hostq,
                   lookVars, stubVars, keyVars, rotVars, dtVars>>

(* lines 101-102, right-hand side: the recursion from the root servers;    *)
(* the address lookups it makes fill the cache                             *)
Recurse(t) ==
    /\ thr[t].pc = "recurse"
    /\ \E r \in {recursive_query(net, prefer_v4,
                                  [cache |-> query_cache, log |-> <<>>, levels |-> <<>>],
                                  expand_root_servers(prefer_v4),
                                  thr[t].zone, thr[t].what, MaxDepth - 1)} :
        /\ query_cache' = r.cache
        /\ thr' = [thr EXCEPT ![t] =
                    [@ EXCEPT !.recursed = TRUE, !.value = r.ans, !.exc = r.exc,
                              !.pc = IF r.exc = "" THEN "store" ELSE "done"]]
    /\ UNCHANGED <<net, prefer_v4, sent, lastq, nq, hostq,
                   lookVars, stubVars, keyVars, rotVars, dtVars>>

(* line 102, the assignment self._query_cache[key] = ... *)
Store(t) ==
    /\ thr[t].pc = "store"
    /\ query_cache' = [k \in DOMAIN query_cache \cup {KeyOf(t)} |->
                            IF k = KeyOf(t) THEN thr[t].value ELSE query_cache[k]]
    /\ thr' = [thr EXCEPT ![t].pc = "return"]
    /\ UNCHANGED <<net, prefer_v4, sent, lastq, nq, hostq,
                   lookVars, stubVars, keyVars, rotVars, dtVars>>

(* line 103: return self._query_cache[key] *)
Return(t) ==
    /\ thr[t].pc = "return"
    /\ thr' = [thr EXCEPT ![t].pc = "done", ![t].result = query_cache[KeyOf(t)]]
    /\ UNCHANGED <<net, prefer_v4, query_cache, sent, lastq, nq, hostq,
                   lookVars, stubVars, keyVars, rotVars, dtVars>>

NextThreads == \E t \in Threads : Call(t) \/ Recurse(t) \/ Store(t) \/ Return(t)

SpecThreads == InitThreads /\ [][NextThreads]_vars

----------------------------------------------------------------------------
(* The stub resolver calls.                                                *)

(* the rrsets responses are made of: signatures of a. grouped by the type  *)
(* they cover, signatures of another owner and of another class, and the   *)
(* NS and SOA records of a. and the NS records of b.                       *)
StubRRsets ==
    {RRset("a.", "IN", "RRSIG", <<1, 2>>), RRset("a.", "IN", "RRSIG", <<3>>),
     RRset("b.", "IN", "RRSIG", <<4>>), RRset("a.", "CH", "RRSIG", <<5>>),
     RRset("a.", "IN", "NS", <<6, 7>>), RRset("a.", "IN", "SOA", <<8>>),
     RRset("b.", "IN", "NS", <<9>>)}

(* longest section of a response *)
MaxSection == 2

(* the sections: a message holds an rrset once *)
Sections ==
    {x \in UNION {[1..k -> StubRRsets] : k \in 0..MaxSection} :
        \A i \in 1..Len(x) : \A j \in 1..Len(x) : x[i] = x[j] => i = j}

(* what res.resolve may do *)
StubOutcomes ==
    {Resolves(<<6, 7>>, "192.0.2.53"), ResolveRaises("NXDOMAIN")}
    \cup {ResolveNoAnswer(a, u) : a \in Sections, u \in Sections}

StubWhats == {"RRSIG", "ns", "DNSKEY"}

StubServers == {<<>>, <<"192.0.2.1", "192.0.2.2">>}

InitStub ==
    /\ stubq = NoStubCall
    /\ ResolverUnused
    /\ prefer_v4 = FALSE
    /\ LookupIdle
    /\ ThreadsIdle
    /\ LifecycleIdle
    /\ RotateIdle
    /\ ParseIdle

(* StubResolver(servers).query("a.", what) *)
StubQuery ==
    /\ stubq = NoStubCall
    /\ \E servers \in StubServers, what \in StubWhats, out \in StubOutcomes :
        stubq' = [op |-> "query", servers |-> servers, zone |-> "a.", what |-> what,
                  where |-> "", out |-> out,
                  result |-> stub_query(servers, "a.", what, out)]
    /\ UNCHANGED <<resVars, lookVars, thrVars, keyVars, rotVars, dtVars>>

(* StubResolver(servers).query_at("a.", what, where) *)
StubQueryAt ==
    /\ stubq = NoStubCall
    /\ \E servers \in StubServers, what \in StubWhats, out \in StubOutcomes,
          where \in {"", "192.0.2.3"} :
        stubq' = [op |-> "query_at", servers |-> servers, zone |-> "a.", what |-> what,
                  where |-> where, out |-> out,
                  result |-> stub_query_at(servers, "a.", what, where, out)]
    /\ UNCHANGED <<resVars, lookVars, thrVars, keyVars, rotVars, dtVars>>

NextStub == StubQuery \/ StubQueryAt

SpecStub == InitStub /\ [][NextStub]_vars

----------------------------------------------------------------------------
(* Properties of the key lifecycle functions. *)

LifecycleFields == <<"d_publish", "d_active", "d_inactive", "d_delete">>

(* the present timestamps among publish, activate, inactivate, delete are  *)
(* non-decreasing in that order                                            *)
Ordered(k) ==
    \A i, j \in 1..4 :
        (i < j /\ k[LifecycleFields[i]] # None /\ k[LifecycleFields[j]] # None)
            => k[LifecycleFields[i]][1] <= k[LifecycleFields[j]][1]

Present(k) == {i \in 1..4 : k[LifecycleFields[i]] # None}

AllStates == {"DEL", "INAC", "ACT", "PUB", "FUT", ""}

Reached(x, t) == x # None /\ ~(x[1] > t)

(* C1: KeyFile.state(ref) returns one of the six states and is the strict  *)
(* priority cascade DEL, INAC, ACT, PUB (timestamp set and <= ref), then   *)
(* FUT (created set and > ref), else UNKNOWN ("").  For publish < activate *)
(* < inactivate < delete it is ACT at ref = activate and at ref =          *)
(* inactivate - 1, and INAC at ref = inactivate.                           *)
C1_StateCascade ==
    op = "state" =>
        LET del == Reached(key.d_delete, ref)
            ina == Reached(key.d_inactive, ref)
            act == Reached(key.d_active, ref)
            pub == Reached(key.d_publish, ref)
            fut == key.d_create # None /\ ~(key.d_create[1] <= ref)
        IN  /\ st \in AllStates
            /\ del => st = "DEL"
            /\ (~del /\ ina) => st = "INAC"
            /\ (~del /\ ~ina /\ act) => st = "ACT"
            /\ (~del /\ ~ina /\ ~act /\ pub) => st = "PUB"
            /\ (~del /\ ~ina /\ ~act /\ ~pub /\ fut) => st = "FUT"
            /\ (~del /\ ~ina /\ ~act /\ ~pub /\ ~fut) => st = ""
            /\ (/\ Present(key) = 1..4
                /\ key.d_publish[1] < key.d_active[1]
                /\ key.d_active[1] < key.d_inactive[1]
                /\ key.d_inactive[1] < key.d_delete[1])
               => /\ ref = key.d_active[1] => st = "ACT"
                  /\ ref = key.d_inactive[1] - 1 => st = "ACT"
                  /\ ref = key.d_inactive[1] => st = "INAC"

(* a key with publish < activate < inactivate < delete asked for its state *)
(* one second before inactivate, later than activate                       *)
C1_Witness ==
    /\ op = "state"
    /\ Present(key) = 1..4
    /\ key.d_publish[1] < key.d_active[1]
    /\ key.d_active[1] < key.d_inactive[1] - 1
    /\ key.d_inactive[1] < key.d_delete[1]
    /\ ref = key.d_inactive[1] - 1
    /\ st = "ACT"

(* the order of the states the claim gives, earliest first *)
RankClaimed(s) ==
    CASE s = "" -> 0 [] s = "FUT" -> 1 [] s = "PUB" -> 2
      [] s = "ACT" -> 3 [] s = "INAC" -> 4 [] s = "DEL" -> 5

(* the order in which a key passes through the states: FUT comes first *)
RankPassed(s) ==
    CASE s = "FUT" -> 0 [] s = "" -> 1 [] s = "PUB" -> 2
      [] s = "ACT" -> 3 [] s = "INAC" -> 4 [] s = "DEL" -> 5

(* C2, as claimed: for a key whose present timestamps among publish,       *)
(* activate, inactivate, delete are non-decreasing, the state at a later   *)
(* reference time is never earlier than the state at an earlier reference  *)
(* time, in the order UNKNOWN, FUT, PUB, ACT, INAC, DEL.                   *)
C2_MonotonicAsClaimed ==
    (op = "state" /\ Ordered(key)) =>
        \A t1 \in Times :
            t1 <= ref => RankClaimed(state(key, t1)) <= RankClaimed(st)

(* C2, amended: the same with the states ordered FUT, UNKNOWN, PUB, ACT,   *)
(* INAC, DEL: a key leaves FUT for UNKNOWN when created is reached and no  *)
(* lifecycle timestamp has been.                                           *)
C2_Monotonic ==
    (op = "state" /\ Ordered(key)) =>
        \A t1 \in Times :
            t1 <= ref => RankPassed(state(key, t1)) <= RankPassed(st)

(* an ordered key that was FUT at an earlier time, then UNKNOWN, and is    *)
(* now PUB                                                                 *)
C2_Witness ==
    /\ op = "state"
    /\ Ordered(key)
    /\ st = "PUB"
    /\ \E t1, t2 \in Times :
        /\ t1 < t2 /\ t2 < ref
        /\ state(key, t1) = "FUT"
        /\ state(key, t2) = ""

(* C3: next_change raises ValueError("Inconsistent Dates") exactly when    *)
(* the present timestamps among publish, activate, inactivate, delete, in  *)
(* that order, are not non-decreasing; the outcome is the same whatever    *)
(* the value or presence of created.                                       *)
C3_InconsistentIff ==
    op = "next_change" =>
        /\ nc.exc \in {"", "ValueError"}
        /\ (nc.exc = "ValueError") <=> ~Ordered(key)
        /\ \A c \in OptTimes :
               next_change([key EXCEPT !.d_create = c], ref) = nc

(* next_change was called on a key with inactivate > delete and failed *)
C3_Witness ==
    /\ op = "next_change"
    /\ key.d_inactive # None
    /\ key.d_delete # None
    /\ key.d_inactive[1] > key.d_delete[1]
    /\ nc.exc = "ValueError"

LaterThan(k, t) ==
    {k[LifecycleFields[i]][1] : i \in {j \in Present(k) : k[LifecycleFields[j]][1] > t}}

(* C4: for a key with non-decreasing present timestamps, next_change(ref)  *)
(* returns the minimum of the present timestamps strictly greater than     *)
(* ref, and None exactly when there is none.                               *)
C4_EarliestLater ==
    (op \in {"next_change", "iterate"} /\ Ordered(key)) =>
        /\ nc.exc = ""
        /\ (nc.val = None) <=> (LaterThan(key, ref) = {})
        /\ nc.val # None =>
            /\ nc.val[1] \in LaterThan(key, ref)
            /\ \A t \in LaterThan(key, ref) : nc.val[1] <= t

(* next_change was called at exactly one of the key's timestamps and       *)
(* returned a later one                                                    *)
C4_Witness ==
    /\ op = "next_change"
    /\ Ordered(key)
    /\ \E i \in Present(key) : key[LifecycleFields[i]][1] = ref
    /\ nc.val # None
    /\ nc.val[1] > ref

(* C5: for a consistent key, iterating r := next_change(key, r) gives a    *)
(* strictly increasing sequence of instants and ends with None after at    *)
(* most as many instants as there are present timestamps among publish,    *)
(* activate, inactivate, delete.                                           *)
C5_IterationEnds ==
    (op \in {"next_change", "iterate"} /\ Ordered(key)) =>
        /\ nc.exc = ""
        /\ \A i \in 1..(Len(hist) - 1) : hist[i] < hist[i + 1]
        /\ ref = hist[Len(hist)]
        /\ nc.val # None => nc.val[1] > ref
        /\ (Len(hist) - 1) + (IF nc.val = None THEN 0 ELSE 1)
               <= Cardinality(Present(key))

(* the iteration went through four distinct timestamps and ended with None *)
C5_Witness ==
    /\ op = "iterate"
    /\ Ordered(key)
    /\ Len(hist) = 5
    /\ nc.val = None

----------------------------------------------------------------------------
(* Properties of the rotation planner. *)

(* the key files the current run started from *)
StartStore == seen[run].store

(* the current run got as far as the end of planning without an exception *)
Planned ==
    /\ pc \in {"exec", "done"}
    /\ args.type = "ZSK"
    /\ ~InvalidInterval(args)
    /\ ret \in {"none", "0", "2"}

(* the qualifying keys of the start store, by algorithm *)
StartGroups == ByAlgo(FilterKeys(list_keys(StartStore), args.type))

Elements(xs) == {xs[i] : i \in 1..Len(xs)}

(* C6, as claimed: after every action of a plan has been applied, running  *)
(* the planner again on the resulting key files with the same durations    *)
(* and the same reference time yields an empty plan.                       *)
C6_RerunPlansNothing ==
    (run = 2 /\ pc \in {"exec", "done"}) => (plan = <<>> /\ ret = "0")

(* C7, as claimed: after the plan of a run has been applied, for every key *)
(* K of an algorithm group that was ACT at planning time, some key of that *)
(* group is ACT at K.inactivate + 1 second.                                *)
C7_UnbrokenChain ==
    (run = 1 /\ pc = "done" /\ ret = "0" /\ ~args.dry_run /\ Planned) =>
        \A Groups \in {StartGroups} :
            \A G \in Elements(Groups) :
                \A K \in Elements(G.g) :
                state(K, Now) = "ACT" =>
                    \E x \in store :
                        /\ x.type = K.type
                        /\ x.algo = K.algo
                        /\ x.d_inactive # None
                        /\ state(x, K.d_inactive[1] + 1) = "ACT"

(* the make_successor tasks of the plan and the dnssec-settime calls that  *)
(* set all four timestamps, in order                                       *)
SuccessorTasks == SelectSeq(plan, LAMBDA t : t.task = "make_successor")

SuccessorCalls ==
    SelectSeq(calls, LAMBDA c : c.cmd = "dnssec-settime" /\ c.A # None)

(* the key files generated since the run started *)
NewKeys == {x \in store : \A y \in StartStore : KeyName(y) # KeyName(x)}

(* C8: the timestamps passed to the key store for a CreateSuccessor with   *)
(* activateAt are activate = activateAt - overlap, publish = activate -    *)
(* prepublish, inactivate = activate + lifetime, delete = inactivate +     *)
(* postpublish; activateAt is the inactivate T of an ACT key without       *)
(* successor, so activate = T - overlap and delete = activate + lifetime + *)
(* postpublish.                                                            *)
C8_SuccessorTimes ==
    pc \in {"exec", "done"} =>
        /\ Len(SuccessorCalls) <= Len(SuccessorTasks)
        /\ \A j \in 1..Len(SuccessorCalls) :
            LET c == SuccessorCalls[j]
                T == SuccessorTasks[j].at
            IN  /\ c.A = <<T - args.overlap>>
                /\ c.P = <<c.A[1] - args.prepublish>>
                /\ c.I = <<c.A[1] + args.lifetime>>
                /\ c.D = <<c.I[1] + args.postpublish>>
                /\ c.D = <<c.A[1] + args.lifetime + args.postpublish>>
                /\ \E K \in StartStore :
                    /\ K.d_inactive = <<T>>
                    /\ state(K, Now) = "ACT"
                    /\ \A x \in StartStore :
                        (x.type = K.type /\ x.algo = K.algo /\ x.d_inactive # None
                         /\ state(x, Now) # "DEL") => state(x, T + 1) # "ACT"
        /\ \A x \in NewKeys :
            x.d_inactive # None =>
                \E j \in 1..Len(SuccessorCalls) :
                    /\ x.d_publish = SuccessorCalls[j].P
                    /\ x.d_active = SuccessorCalls[j].A
                    /\ x.d_inactive = SuccessorCalls[j].I
                    /\ x.d_delete = SuccessorCalls[j].D

(* a successor was given its timestamps with a non-zero overlap, a         *)
(* non-zero prepublication and a non-zero postpublication                  *)
C8_Witness ==
    /\ pc = "done"
    /\ ret = "0"
    /\ args.overlap = 1 /\ args.prepublish = 1 /\ args.postpublish = 1
    /\ Len(SuccessorCalls) >= 1
    /\ \E x \in NewKeys : x.d_delete = SuccessorCalls[1].D

(* the keys the loop over activekeys goes through, for all groups *)
ProcessedKeys ==
    UNION {UNION {Elements(A) : A \in {ActiveKeys(G.g) : G \in Elements(Groups)}} :
            Groups \in {StartGroups}}

(* C9: for every currently ACT key K the planner processes, the plan holds *)
(* AdjustDeletion{K, K.inactivate + postpublish} if and only if K.delete   *)
(* is absent or K.delete > (K.inactivate + 1 second) + postpublish.        *)
C9_AdjustDeletionIff ==
    Planned => \A Processed \in {ProcessedKeys} :
        /\ \A K \in Processed :
            /\ state(K, Now) = "ACT"
            /\ (\E i \in 1..Len(plan) :
                    plan[i] = [task |-> "set_times", key |-> K,
                               at |-> K.d_inactive[1] + args.postpublish])
               <=> (K.d_delete = None
                    \/ K.d_delete[1] > (K.d_inactive[1] + 1) + args.postpublish)
        /\ \A i \in 1..Len(plan) :
            plan[i].task = "set_times" =>
                /\ plan[i].key \in Processed
                /\ plan[i].at = plan[i].key.d_inactive[1] + args.postpublish

(* an ACT key without delete got AdjustDeletion with inactivate +          *)
(* postpublish, and another ACT key whose delete is exactly inactivate +   *)
(* 1 second + postpublish got none                                         *)
C9_Witness ==
    /\ Planned
    /\ args.postpublish = 1
    /\ \E K \in ProcessedKeys :
        /\ K.d_delete = None
        /\ \E i \in 1..Len(plan) :
            plan[i].task = "set_times" /\ plan[i].key = K
            /\ plan[i].at = K.d_inactive[1] + 1
    /\ \E K \in ProcessedKeys :
        /\ K.d_delete = <<K.d_inactive[1] + 2>>
        /\ \A i \in 1..Len(plan) : plan[i].key # K \/ plan[i].task # "set_times"

(* C10: a rotation requested for KSK fails with NotImplementedError before *)
(* any key is examined: no plan, no key listing, no dnssec-settime and no  *)
(* dnssec-keygen call, the key files unchanged.                            *)
C10_KskUnsupported ==
    (args.type = "KSK" /\ pc # "start") =>
        /\ pc = "done"
        /\ ret = "NotImplementedError"
        /\ plan = <<>>
        /\ todo = <<>>
        /\ calls = <<>>
        /\ store = StartStore

(* a KSK rotation was refused although the directory holds an active       *)
(* key-signing key that goes inactive                                      *)
C10_Witness ==
    /\ args.type = "KSK"
    /\ pc = "done"
    /\ ret = "NotImplementedError"
    /\ \E x \in store : x.type = "KSK" /\ x.d_inactive # None /\ state(x, Now) = "ACT"

(* C11, as claimed: a ZSK rotation with overlap >= lifetime or a negative  *)
(* duration fails with ValueError for every key set, also one without a    *)
(* qualifying key, and nothing is planned or executed.                     *)
C11_InvalidIntervalAlwaysFails ==
    (args.type = "ZSK" /\ InvalidInterval(args) /\ pc # "start") =>
        /\ pc = "done"
        /\ ret = "ValueError"
        /\ plan = <<>>
        /\ \A i \in 1..Len(calls) : calls[i].cmd = "list_keys"
        /\ store = StartStore

(* the calls that start a task: dnssec-settime -D alone, or dnssec-keygen *)
TaskCalls ==
    SelectSeq(calls, LAMBDA c : \/ c.cmd = "dnssec-keygen"
                                \/ c.cmd = "dnssec-settime" /\ c.A = None)

(* the number of tasks of the plan the run has started *)
Started == IF args.dry_run THEN 0
           ELSE (Len(plan) - Len(todo)) + (IF ret = "2" THEN 1 ELSE 0)

(* C12: the tasks of the plan are executed one after the other in plan     *)
(* order; when the key store fails on a task no later task is executed,    *)
(* the failed task is not tried again and the run returns a non-zero       *)
(* result.                                                                 *)
C12_AbortOnFailure ==
    /\ [](pc \in {"exec", "done"} =>
            /\ Len(todo) <= Len(plan)
            /\ todo = <<>> \/ todo = SubSeq(plan, Len(plan) - Len(todo) + 1, Len(plan))
            /\ Len(TaskCalls) = Started
            /\ \A j \in 1..Len(TaskCalls) :
                TaskCalls[j] = IF plan[j].task = "set_times"
                               THEN SetDeleteCall(plan[j].key, plan[j].at)
                               ELSE KeygenCall(plan[j].key)
            /\ (pc = "exec") = (ret = "none")
            /\ ret = "2" => (pc = "done" /\ todo # <<>>)
            /\ (ret = "0" /\ ~args.dry_run) => todo = <<>>)
    /\ [][ret # "2"]_vars

(* a run whose first task succeeded, whose second task failed and whose    *)
(* plan holds a third task that was never started                          *)
C12_Witness ==
    /\ pc = "done"
    /\ ret = "2"
    /\ Len(plan) - Len(todo) = 1
    /\ Len(todo) >= 2
    /\ Len(TaskCalls) = 2

----------------------------------------------------------------------------
(* Properties of the recursive resolver. *)

(* the last call asked for the TXT record of www.leaf.tld. *)
AskedLeafRecord ==
    /\ nq > 0
    /\ Upper(lastq.zone) = "WWW.LEAF.TLD."
    /\ Upper(lastq.what) = "TXT"

(* the delegation chain root -> tld. -> leaf.tld. has NS records whose     *)
(* hosts all come with glue, and every server that accepts a connection    *)
(* answers                                                                 *)
GoodChain ==
    /\ net.glue # "none"
    /\ ~net.secondary
    /\ net.slow = {}

(* the addresses an additional section holds *)
GlueAddrs(adds) == {adds[i].address : i \in 1..Len(adds)}

(* the root hints, and the nameservers named in the referrals of the chain *)
HintAddrs == UNION {{ROOT_SERVERS[i].v4, ROOT_SERVERS[i].v6} : i \in 1..Len(ROOT_SERVERS)}
TldReferralAddrs == GlueAddrs(ServerResponse(net, "r4", "WWW.LEAF.TLD.", "TXT").additional)
LeafReferralAddrs == GlueAddrs(ServerResponse(net, "t4", "WWW.LEAF.TLD.", "TXT").additional)
ChainAddrs == HintAddrs \cup TldReferralAddrs \cup LeafReferralAddrs

(* C13: over a delegation chain root -> TLD -> zone with correct NS and    *)
(* glue, query(name, type) for a record of the leaf zone returns that      *)
(* record set, and every server a query is sent to is a root hint or a     *)
(* nameserver named in a referral of the chain.                            *)
C13_LeafRecordOverChain ==
    (AskedLeafRecord /\ GoodChain) =>
        /\ \A i \in 1..Len(sent) : sent[i].where \in ChainAddrs
        /\ lastq.exc \in {"", "NoNameservers"}
        /\ lastq.exc = "" =>
            /\ lastq.ans.rrset = <<"v=www">>
            /\ lastq.ans.nameserver \in LeafReferralAddrs
        /\ (/\ HintAddrs \ net.down # {}
            /\ TldReferralAddrs \ net.down # {}
            /\ LeafReferralAddrs \ net.down # {}) => lastq.exc = ""

(* the record was fetched through root, TLD and leaf servers while the     *)
(* first root hint and the first TLD server refused the connection         *)
C13_Witness ==
    /\ AskedLeafRecord
    /\ GoodChain
    /\ ~lastq.hit
    /\ lastq.exc = ""
    /\ lastq.ans.rrset = <<"v=www">>
    /\ net.down = {"r6", "t6"}
    /\ Len(sent) = 5

(* the last call asked for the TXT record of alias.leaf.tld., a name that  *)
(* holds only a CNAME to www.leaf.tld.                                     *)
AskedAlias ==
    /\ nq > 0
    /\ ~lastq.hit
    /\ Upper(lastq.zone) = "ALIAS.LEAF.TLD."
    /\ Upper(lastq.what) = "TXT"

(* the queries of the last call that were answered with the CNAME *)
CnameAnswers ==
    {i \in 1..Len(sent) :
        /\ Upper(sent[i].qname) = "ALIAS.LEAF.TLD."
        /\ sent[i].where \notin net.down \cup net.slow
        /\ ServerResponse(net, sent[i].where, Upper(sent[i].qname), Upper(sent[i].what)).cname # <<>>}

TargetKey == <<"WWW.LEAF.TLD.", "TXT">>

(* C14: a NOERROR response with no answer of the queried type but a CNAME  *)
(* restarts the whole resolution for the CNAME target with the original    *)
(* type: the next query goes to the first root hint and asks for the       *)
(* target, the original name is not asked for again, and the result of the *)
(* call is the record set of the target.                                   *)
C14_CnameRestart ==
    AskedAlias =>
        /\ \A i \in CnameAnswers :
            /\ \A j \in (i+1)..Len(sent) : Upper(sent[j].qname) # "ALIAS.LEAF.TLD."
            /\ TargetKey \notin DOMAIN lastq.before =>
                /\ i < Len(sent)
                /\ sent[i+1] = [where |-> expand_root_servers(prefer_v4)[1].addr,
                                qname |-> "www.leaf.tld.", what |-> lastq.what]
        /\ lastq.exc = "" =>
            /\ CnameAnswers # {}
            /\ lastq.ans.rrset = <<"v=www">>
            /\ TargetKey \in DOMAIN query_cache
            /\ query_cache[TargetKey] = lastq.ans
        /\ (/\ GoodChain
            /\ HintAddrs \ net.down # {}
            /\ TldReferralAddrs \ net.down # {}
            /\ LeafReferralAddrs \ net.down # {}) => lastq.exc = ""

(* the alias was resolved with two full descents from the root: three      *)
(* queries down to the CNAME and three more for its target                 *)
C14_Witness ==
    /\ AskedAlias
    /\ TargetKey \notin DOMAIN lastq.before
    /\ lastq.exc = ""
    /\ lastq.ans.rrset = <<"v=www">>
    /\ Len(sent) = 6
    /\ CnameAnswers = {3}
    /\ sent[4].where \in HintAddrs

(* the cache key of the last call *)
LastKey == <<Upper(lastq.zone), Upper(lastq.what)>>

(* C19 as stated: the full recursion from the root hints is performed at   *)
(* most once per (name, type) key, so a call for a key that was asked for  *)
(* before sends no query.                                                  *)
C19_RecursionOncePerKey ==
    (nq > 0 /\ LastKey \in lastq.asked) => sent = <<>>

(* C19: once query(name, type) has returned a result, every later call for *)
(* the same key, names and types compared without regard to case, returns  *)
(* that result and sends no query; a stored result is never replaced; only *)
(* a call that raised leaves nothing behind, and a later call for its key  *)
(* performs the recursion again.                                           *)
C19_CachedResultReused ==
    nq > 0 =>
        /\ lastq.hit <=> LastKey \in DOMAIN lastq.before
        /\ lastq.hit =>
            /\ sent = <<>>
            /\ lastq.exc = ""
            /\ lastq.ans = lastq.before[LastKey]
        /\ lastq.exc = "" =>
            /\ LastKey \in DOMAIN query_cache
            /\ query_cache[LastKey] = lastq.ans
        /\ \A k \in DOMAIN lastq.before :
            k \in DOMAIN query_cache /\ query_cache[k] = lastq.before[k]
        /\ (LastKey \in lastq.asked /\ ~lastq.hit) => (lastq.exc # "" /\ sent # <<>>)

(* the second call asks for the record of the first in another case and is *)
(* served from the cache                                                   *)
C19_Witness ==
    /\ nq = 2
    /\ lastq.zone = "WWW.LEAF.TLD."
    /\ lastq.what = "txt"
    /\ lastq.asked = {<<"WWW.LEAF.TLD.", "TXT">>}
    /\ lastq.hit
    /\ sent = <<>>
    /\ lastq.ans.rrset = <<"v=www">>

----------------------------------------------------------------------------
(* Properties of the published key collection. *)

(* the last call was a query_zone call that did not return at the          *)
(* known_zones test                                                        *)
ZoneQueried == lastz.zone # "" /\ ~lastz.known

(* the servers query_zone has to ask for the zone, when their names are    *)
(* to be had                                                               *)
ServersKnown == explicit_nameservers # <<>> \/ world.ns \in {"answer", "authority"}
ServersOf(zone) ==
    IF explicit_nameservers # <<>> THEN Elements(explicit_nameservers)
    ELSE Elements(NsHosts(zone))

(* what the world holds for a server given by name or by address *)
ProfileOf(ns) == world.host[IF is_address(ns) THEN HostAt(ns) ELSE ns]

(* the entries query_zone stores for a server that answers normally *)
GoodDnskey == TagList(store_sorted(DnskeyRecords))
GoodSigners == TagList(store_sorted(RrsigRecords))

(* C15: when one authoritative server of a zone fails (timeout, address    *)
(* resolution failure, DNSKEY or RRSIG failure) and another answers        *)
(* normally, query_zone completes without aborting, the maps hold the      *)
(* failure under the first server and the key tags under the second.       *)
C15_PartialFailure ==
    (ZoneQueried /\ ServersKnown) =>
        /\ lastz.exc = ""
        /\ \A ns \in ServersOf(lastz.zone) :
            /\ ns \in DOMAIN zone_dnskey[lastz.zone]
            /\ ns \in DOMAIN zone_signers[lastz.zone]
            /\ ProfileOf(ns) = NormalHost =>
                /\ zone_dnskey[lastz.zone][ns] = GoodDnskey
                /\ zone_signers[lastz.zone][ns] = GoodSigners
            /\ (~is_address(ns) /\ ProfileOf(ns).addr \notin {"both", "v4"}) =>
                /\ zone_dnskey[lastz.zone][ns].exc # ""
                /\ zone_signers[lastz.zone][ns].exc # ""
            /\ ProfileOf(ns).dnskey = "LifetimeTimeout" => zone_dnskey[lastz.zone][ns].exc # ""
            /\ ProfileOf(ns).rrsig = "LifetimeTimeout" => zone_signers[lastz.zone][ns].exc # ""

(* C16: for each of the DS, DNSKEY and RRSIG queries of a zone a NoAnswer  *)
(* is recorded as an empty key set and not as a failure, and any other DNS *)
(* failure is recorded as a failure value.                                 *)
C16_EmptyNotFailure ==
    ZoneQueried =>
        /\ world.ds[lastz.zone] = "NoAnswer" => zone_ds[lastz.zone] = TagList(<<>>)
        /\ world.ds[lastz.zone] = "LifetimeTimeout" => zone_ds[lastz.zone].exc # ""
        /\ lastz.zone \in DOMAIN zone_dnskey =>
            \A ns \in DOMAIN zone_dnskey[lastz.zone] :
                /\ ProfileOf(ns).dnskey = "NoAnswer" => zone_dnskey[lastz.zone][ns] = TagList(<<>>)
                /\ ProfileOf(ns).dnskey = "LifetimeTimeout" => zone_dnskey[lastz.zone][ns].exc # ""
                /\ ProfileOf(ns).rrsig = "NoAnswer" => zone_signers[lastz.zone][ns] = TagList(<<>>)
                /\ ProfileOf(ns).rrsig = "LifetimeTimeout" => zone_signers[lastz.zone][ns].exc # ""

(* the last query_zone call left the collection as it was *)
MapsUnchanged ==
    /\ zone_ds = lastz.before.zone_ds
    /\ zone_dnskey = lastz.before.zone_dnskey
    /\ zone_signers = lastz.before.zone_signers

(* C17: a zone is queried at most once: a query_zone call for a zone that  *)
(* an earlier call of the collection queried issues no DNS lookup and      *)
(* leaves the DS, DNSKEY and RRSIG maps unchanged.                         *)
C17_ZoneQueriedOnce ==
    (lastz.zone # "" /\ lastz.zone \in DOMAIN lastz.before.zone_ds) =>
        (lookups = <<>> /\ MapsUnchanged)

(* the servers that appear in the maps of the run: those asked for DNSKEY  *)
(* and RRSIG, and the resolver that answered a DS query                    *)
MapServers ==
    UNION {DOMAIN zone_dnskey[z] : z \in DOMAIN zone_dnskey}
        \cup UNION {DOMAIN zone_signers[z] : z \in DOMAIN zone_signers}
DsServers == {ResolverAddr : z \in {y \in DOMAIN zone_ds : zone_ds[y].exc = ""}}

(* C18: contacted_servers() returns each server identity of the DS, DNSKEY *)
(* and RRSIG maps exactly once and no entry that was never contacted, the  *)
(* servers that answered a DS query first, by name within the two groups.  *)
C18_ContactedServers ==
    (contacted # <<>> /\ zone_ds # <<>>) =>
        /\ \A i \in 1..Len(contacted) : contacted[i] # <<>>
        /\ \A i, j \in 1..Len(contacted) : i # j => contacted[i] # contacted[j]
        /\ {contacted[i] : i \in 1..Len(contacted)} = {<<x>> : x \in MapServers \cup DsServers}
        /\ \A i, j \in 1..Len(contacted) :
            (i < j /\ contacted[i] # <<>> /\ contacted[j] # <<>>) =>
                \/ contacted[i][1] \in DsServers /\ contacted[j][1] \notin DsServers
                \/ /\ (contacted[i][1] \in DsServers) = (contacted[j][1] \in DsServers)
                   /\ NameRank(contacted[i][1]) < NameRank(contacted[j][1])

----------------------------------------------------------------------------
(* Properties of the interval parser. *)

(* the endings the format knows and the seconds each stands for *)
Units ==
    {[suffix |-> <<>>, seconds |-> 1],
     [suffix |-> <<"m", "i">>, seconds |-> 60],
     [suffix |-> <<"h">>, seconds |-> 3600],
     [suffix |-> <<"d">>, seconds |-> 86400],
     [suffix |-> <<"w">>, seconds |-> 604800],
     [suffix |-> <<"m">>, seconds |-> 30 * 86400],
     [suffix |-> <<"y">>, seconds |-> 365 * 86400]}

(* the integer the text holds in front of the ending of unit u *)
NumberOf(text, u) == int(withoutlast(text, Len(u.suffix)))

(* the ways to read the text as an integer followed by an ending *)
Readings(text) == {u \in Units : endswith(text, u.suffix) /\ NumberOf(text, u).exc = ""}

(* the timedelta d is n times len seconds; a product beyond 2^31 is        *)
(* compared by days and seconds                                            *)
IsSeconds(d, n, len) ==
    /\ d.exc = ""
    /\ d.seconds \in 0..(86400 - 1)
    /\ IF Abs(n) <= 15 THEN d.days * 86400 + d.seconds = n * len
       ELSE IF len < 86400
       THEN d.days = n \div (86400 \div len) /\ d.seconds = (n % (86400 \div len)) * len
       ELSE d.days = n * (len \div 86400) /\ d.seconds = 0

(* n times len seconds is a timedelta: at most MaxDays days either way *)
InRange(n, len) ==
    IF len < 86400 THEN Abs(n \div (86400 \div len)) <= MaxDays
    ELSE Abs(n) <= MaxDays \div (len \div 86400)

(* C20 as stated: an integer n gives n seconds, n followed by mi, h, d, w, *)
(* m, y gives 60n, 3600n, 86400n, 604800n, 30*86400n, 365*86400n seconds,  *)
(* and every other input fails.                                            *)
C20_IntervalAsClaimed ==
    delta # NotParsed =>
        /\ Readings(inp) = {} => delta.exc # ""
        /\ \A u \in Readings(inp) : IsSeconds(delta, NumberOf(inp, u).val, u.seconds)

(* C20: a text is read in at most one way; an integer n in the form int()  *)
(* accepts, alone or followed by mi, h, d, w, m, y, gives n times 1, 60,   *)
(* 3600, 86400, 604800, 30*86400, 365*86400 seconds when that is within    *)
(* the range of timedelta and OverflowError when it is not; every other    *)
(* text fails with ValueError.                                             *)
C20_IntervalParsed ==
    delta # NotParsed =>
        /\ Cardinality(Readings(inp)) <= 1
        /\ Readings(inp) = {} => delta.exc = "ValueError"
        /\ \A u \in Readings(inp) :
            IF InRange(NumberOf(inp, u).val, u.seconds)
            THEN IsSeconds(delta, NumberOf(inp, u).val, u.seconds)
            ELSE delta.exc = "OverflowError"

(* "5mi" was parsed: five minutes, not five months *)
C20_Witness ==
    /\ inp = <<"5", "m", "i">>
    /\ delta = Delta(0, 300)

----------------------------------------------------------------------------
(* Further properties of the rotation planner. *)

(* the qualifying keys of the start store that are ACT at planning time *)
ActiveAtStart ==
    UNION {{K \in Elements(G.g) : state(K, Now) = "ACT"} : G \in Elements(StartGroups)}

(* the qualifying keys of the start store with the algorithm of K *)
SubsetOf(K) ==
    {x \in StartStore : Qualified(x, args.type) /\ x.algo = K.algo}

(* the plan holds the task for key k with instant t *)
InPlan(task, k, t) ==
    \E i \in 1..Len(plan) : plan[i].task = task /\ plan[i].key = k /\ plan[i].at = t

(* C21, as claimed: every key of an algorithm subset that is ACT at        *)
(* planning time is examined, whatever the states of the other keys and    *)
(* the order of the key list: when its delete needs adjusting the plan     *)
(* holds the AdjustDeletion for it, and when no key of the subset is ACT   *)
(* one second after its inactivate the plan holds a CreateSuccessor with   *)
(* activateAt = its inactivate.                                            *)
C21_EveryActiveKeyExamined ==
    Planned => \A K \in ActiveAtStart :
        /\ NeedsDeleteFix(K, args) =>
                InPlan("set_times", K, K.d_inactive[1] + args.postpublish)
        /\ (\A x \in SubsetOf(K) : state(x, K.d_inactive[1] + second) # "ACT") =>
                \E i \in 1..Len(plan) :
                    /\ plan[i].task = "make_successor"
                    /\ plan[i].at = K.d_inactive[1]
                    /\ plan[i].key.algo = K.algo

(* no qualifying key of the start store with the algorithm of K is ACT one *)
(* second after K goes inactive                                            *)
NoSuccessorAtStart(K) ==
    \A x \in SubsetOf(K) : state(x, K.d_inactive[1] + second) # "ACT"

(* C22: for each currently ACT key K the planner processes, the plan holds *)
(* CreateSuccessor{template, activateAt = K.inactivate} if and only if no  *)
(* key of the same algorithm subset, taken as it was when the run started, *)
(* is ACT at K.inactivate + 1 second; a successor planned earlier in the   *)
(* run is not taken into account, so the plan holds exactly one            *)
(* CreateSuccessor per processed key without a successor.                  *)
C22_SuccessorIff ==
    Planned => \A Processed \in {ProcessedKeys} :
        /\ \A K \in Processed :
            (\E i \in 1..Len(plan) :
                /\ plan[i].task = "make_successor"
                /\ plan[i].at = K.d_inactive[1]
                /\ plan[i].key \in SubsetOf(K))
            <=> NoSuccessorAtStart(K)
        /\ \A i \in 1..Len(plan) :
            plan[i].task = "make_successor" =>
                \E K \in Processed :
                    /\ plan[i].at = K.d_inactive[1]
                    /\ plan[i].key \in SubsetOf(K)
                    /\ NoSuccessorAtStart(K)
        /\ Len(SuccessorTasks) = Cardinality({K \in Processed : NoSuccessorAtStart(K)})

(* two keys of one subset that go inactive at the same instant are both    *)
(* processed, neither has a successor in the start store, and the plan     *)
(* holds a CreateSuccessor for each: the one planned for the first key,    *)
(* which would be ACT one second after the second key goes inactive, did   *)
(* not count as its successor                                              *)
C22_Witness ==
    /\ Planned
    /\ args.lifetime = 3 /\ args.overlap = 0
    /\ Len(SuccessorTasks) = 2
    /\ \E K1, K2 \in ProcessedKeys :
        /\ K1 # K2
        /\ K1.algo = K2.algo
        /\ K1.d_inactive = <<3>> /\ K2.d_inactive = <<3>>
        /\ NoSuccessorAtStart(K1) /\ NoSuccessorAtStart(K2)
        /\ SuccessorTasks[1].at = 3 /\ SuccessorTasks[2].at = 3

(* C23: an AdjustDeletion only ever sets or shortens a deletion time: for  *)
(* every AdjustDeletion{K, newDeleteTime} of a plan K.delete is absent or  *)
(* newDeleteTime < K.delete; a key whose delete is at or before its        *)
(* inactivate + postpublish gets no AdjustDeletion, and no key file that   *)
(* had a delete when the run started has a later one or none while the     *)
(* plan is executed.                                                       *)
C23_DeletionOnlyShortened ==
    Planned =>
        /\ \A i \in 1..Len(plan) :
            plan[i].task = "set_times" =>
                /\ plan[i].key \in StartStore
                /\ plan[i].key.d_delete = None \/ plan[i].at < plan[i].key.d_delete[1]
        /\ \A K \in StartStore :
            (/\ K.d_inactive # None
             /\ K.d_delete # None
             /\ K.d_delete[1] <= K.d_inactive[1] + args.postpublish)
            => \A i \in 1..Len(plan) : ~(plan[i].task = "set_times" /\ plan[i].key = K)
        /\ \A K \in StartStore :
            K.d_delete # None =>
                \E x \in store :
                    /\ KeyName(x) = KeyName(K)
                    /\ x.d_delete # None
                    /\ x.d_delete[1] <= K.d_delete[1]

(* a run with postpublish 0 shortened the delete of an ACT key from 5 to   *)
(* its inactivate 3 and the key file carries it, while another ACT key     *)
(* whose delete 5 equals its inactivate + postpublish kept it              *)
C23_Witness ==
    /\ Planned
    /\ pc = "done" /\ ret = "0" /\ ~args.dry_run
    /\ args.postpublish = 0
    /\ \E K \in StartStore :
        /\ K.d_delete = <<5>> /\ K.d_inactive = <<3>>
        /\ InPlan("set_times", K, 3)
        /\ \E x \in store : KeyName(x) = KeyName(K) /\ x.d_delete = <<3>>
    /\ \E K \in StartStore :
        /\ state(K, Now) = "ACT"
        /\ K.d_delete = <<5>> /\ K.d_inactive = <<5>>
        /\ K \in store

(* the algorithms of the qualifying keys of the start store *)
StartAlgos == {G.k : G \in Elements(StartGroups)}

(* the key files of the start store without the keys of other algorithms *)
OnlyAlgo(A) == {x \in StartStore : x.algo = A}

(* the tasks of the plan for keys of algorithm A *)
TasksFor(A) == SelectSeq(plan, LAMBDA t : t.key.algo = A)

(* the run got past the sanity checks of the timing parameters *)
PlanningDone ==
    /\ pc \in {"exec", "done"}
    /\ args.type = "ZSK"
    /\ ~InvalidInterval(args)

(* C24, as claimed: algorithm groups are planned independently: the tasks  *)
(* planned for the keys of algorithm A are those planned when the key      *)
(* directory holds the keys of A only; every template and every successor  *)
(* judgement is taken among the keys of A.                                 *)
C24_AlgorithmsIndependent ==
    PlanningDone => \A A \in StartAlgos :
        \A alone \in {Planning(OnlyAlgo(A), args)} :
            /\ TasksFor(A) = alone.plan
            /\ \A i \in 1..Len(plan) :
                (plan[i].task = "make_successor" /\ plan[i].key.algo = A) =>
                    \E K \in OnlyAlgo(A) :
                        /\ Qualified(K, args.type)
                        /\ state(K, Now) = "ACT"
                        /\ K.d_inactive = <<plan[i].at>>
                        /\ NoSuccessorAtStart(K)

(* the algorithm groups of the start store without a key that is ACT *)
IdleAlgos ==
    {A \in StartAlgos : \A x \in OnlyAlgo(A) : Qualified(x, args.type) => state(x, Now) # "ACT"}

(* C25, as claimed: an algorithm group with no key currently ACT puts no   *)
(* task into the plan and does not make the run fail: when every other     *)
(* group can be planned, the run does not end in an exception, the tasks   *)
(* of every other group are in the plan, and the plan is executed.         *)
C25_IdleGroupSkipped ==
    PlanningDone => \A A \in IdleAlgos :
        /\ TasksFor(A) = <<>>
        /\ (\A B \in StartAlgos \ {A} : Planning(OnlyAlgo(B), args).ret \in {"none", "0"})
           => /\ ret \in {"none", "0", "2"}
              /\ \A B \in StartAlgos \ {A} : TasksFor(B) = Planning(OnlyAlgo(B), args).plan
              /\ (plan # <<>> /\ ~args.dry_run) => (Len(calls) > 1 \/ pc = "exec")

(* x was created no later than T, a missing Created counting as earliest *)
CreatedNoLater(x, T) ==
    x.d_create = None \/ (T.d_create # None /\ x.d_create[1] <= T.d_create[1])

(* C26: the template of every CreateSuccessor of an algorithm group is a   *)
(* key of the group's subset (requested type, inactivate set, not DEL)     *)
(* with the latest created of the subset; among the keys with that created *)
(* it is the one with the greatest key id, so the choice is a function of  *)
(* the key set, and all CreateSuccessor tasks of a group share it.         *)
C26_TemplateLatestCreated ==
    Planned => \A i \in 1..Len(plan) :
        plan[i].task = "make_successor" =>
            \A T \in {plan[i].key} :
                /\ T \in StartStore
                /\ Qualified(T, args.type)
                /\ \A x \in SubsetOf(T) :
                    /\ CreatedNoLater(x, T)
                    /\ CreatedNoLater(T, x) => x.keyid <= T.keyid
                /\ \A j \in 1..Len(plan) :
                    (plan[j].task = "make_successor" /\ plan[j].key.algo = T.algo)
                    => plan[j].key = T

(* a successor is planned for an active key from a template that is        *)
(* another key of the subset, created later and listed before it           *)
C26_Witness ==
    /\ Planned
    /\ \E i \in 1..Len(plan) :
        /\ plan[i].task = "make_successor"
        /\ \E K \in ProcessedKeys :
            /\ K.d_inactive = <<plan[i].at>>
            /\ K.algo = plan[i].key.algo
            /\ K # plan[i].key
            /\ K.d_create = <<0>>
            /\ plan[i].key.d_create = <<1>>
            /\ K.keyid > plan[i].key.keyid

(* the key files of the start store that planning must leave out: another  *)
(* type, no inactivate, or DEL at planning time                            *)
LeftOut == {x \in StartStore : ~Qualified(x, args.type)}

(* C27: planning only involves keys of the requested type that have an     *)
(* inactivate and are not DEL: every target and every template of a plan   *)
(* task is such a key of the start store, and a key that lacks inactivate  *)
(* or is DEL does not count as successor: a processed key without a        *)
(* qualifying successor gets its CreateSuccessor also when a key left out  *)
(* is ACT one second after it goes inactive.                               *)
C27_OnlyQualifiedKeys ==
    Planned =>
        /\ \A i \in 1..Len(plan) :
            /\ plan[i].key \in StartStore
            /\ plan[i].key \notin LeftOut
            /\ plan[i].key.type = args.type
            /\ plan[i].key.d_inactive # None
            /\ state(plan[i].key, Now) # "DEL"
        /\ \A K \in ProcessedKeys :
            /\ K \notin LeftOut
            /\ NoSuccessorAtStart(K) =>
                    \E i \in 1..Len(plan) :
                        plan[i].task = "make_successor" /\ plan[i].at = K.d_inactive[1]

(* a successor is planned for an active key, from that key as template,    *)
(* although a key of the same type and algorithm without inactivate is     *)
(* ACT one second after it goes inactive                                   *)
C27_Witness ==
    /\ Planned
    /\ \E K \in ProcessedKeys :
        /\ InPlan("make_successor", K, K.d_inactive[1])
        /\ \E x \in LeftOut :
            /\ x.type = K.type /\ x.algo = K.algo
            /\ x.d_inactive = None
            /\ state(x, K.d_inactive[1] + second) = "ACT"

(* the make_successor tasks of the plan that were executed to the end *)
SuccessorsMade ==
    SelectSeq(SubSeq(plan, 1, Len(plan) - Len(todo)), LAMBDA t : t.task = "make_successor")

(* C28, as claimed: a CreateSuccessor is applied atomically: when its      *)
(* execution fails, in the key generation or in the timestamp assignment   *)
(* that follows, the key directory holds no new key from it, and every     *)
(* successor key that exists carries the four computed timestamps          *)
(* publish, activate, inactivate and delete.                               *)
C28_SuccessorAtomic ==
    (Planned /\ ~args.dry_run) =>
        /\ Cardinality(NewKeys) = Len(SuccessorsMade)
        /\ \A x \in NewKeys :
            \E i \in 1..Len(plan) :
                /\ plan[i].task = "make_successor"
                /\ \A t \in {SuccessorTimes(plan[i].at, args)} :
                    /\ x.d_publish = <<t.publish>>
                    /\ x.d_active = <<t.activate>>
                    /\ x.d_inactive = <<t.inactivate>>
                    /\ x.d_delete = <<t.delete>>

----------------------------------------------------------------------------
(* Further properties of the recursive resolver. *)

(* the servers the last call sent a query to, in order *)
Contacted == [i \in 1..Len(sent) |-> sent[i].where]

(* C29, as claimed: when every candidate has been tried without a          *)
(* definitive result the resolution fails with NoNameservers, and its      *)
(* error list holds one entry for each candidate whose connection failed:  *)
(* every entry names a server that refused the connection, and when all    *)
(* the servers tried refused it, the list names each of them in order.     *)
C29_ConnectionErrorsListed ==
    (nq > 0 /\ lastq.exc = "NoNameservers") =>
        /\ \A j \in 1..Len(lastq.errors) :
            /\ lastq.errors[j] \in net.down
            /\ \E i \in 1..Len(sent) : sent[i].where = lastq.errors[j]
        /\ (\A i \in 1..Len(sent) : sent[i].where \in net.down) =>
                lastq.errors = Contacted

(* the servers that answered the question of the last call with NOERROR,   *)
(* no record of the type asked, no CNAME and an authority section without  *)
(* SOA and NS                                                              *)
BareAnswers ==
    {i \in 1..Len(sent) :
        /\ sent[i].where \notin net.down \cup net.slow
        /\ Upper(sent[i].qname) = Upper(lastq.zone)
        /\ Upper(sent[i].what) = Upper(lastq.what)
        /\ \A rs \in {ServerResponse(net, sent[i].where, Upper(sent[i].qname),
                                      Upper(sent[i].what))} :
            /\ rs.rcode = "NOERROR"
            /\ rs.rrset = <<>>
            /\ rs.cname = <<>>
            /\ ~rs.soa
            /\ rs.ns = <<>>}

(* C30, as claimed: a NOERROR response with no answer of the type asked,   *)
(* no CNAME and an authority section holding neither SOA nor NS, an empty  *)
(* one included, ends the resolution with NoAnswer attributed to that      *)
(* server: no further candidate is queried and the outcome is not          *)
(* NoNameservers.                                                          *)
C30_BareAnswerIsNoAnswer ==
    (nq > 0 /\ ~lastq.hit) =>
        \A i \in BareAnswers :
            /\ i = Len(sent)
            /\ lastq.exc = "NoAnswer"
            /\ lastq.at = sent[i].where
----------------------------------------------------------------------------
(* Properties of the resolver's handling of single responses. *)

(* the response the server of the i-th query of the last call gave, for    *)
(* the queries that were answered                                          *)
Answered == {i \in 1..Len(sent) : sent[i].where \notin net.down \cup net.slow}

ResponseTo(i) ==
    ServerResponse(net, sent[i].where, Upper(sent[i].qname), Upper(sent[i].what))

(* the queries answered with NOERROR, no record set of the type asked and  *)
(* no CNAME                                                                *)
Unanswered ==
    {i \in Answered : \A rs \in {ResponseTo(i)} :
        rs.rcode = "NOERROR" /\ rs.rrset = <<>> /\ rs.cname = <<>>}

(* C31: a NOERROR response without an answer and with an SOA record in its *)
(* authority section ends the resolution with NoAnswer naming the server   *)
(* that sent it: it is the last query of the call, also when the authority *)
(* section holds NS records as well.                                       *)
C31_SoaIsNoAnswer ==
    (nq > 0 /\ ~lastq.hit) =>
        \A i \in Unanswered :
            ResponseTo(i).soa =>
                /\ i = Len(sent)
                /\ lastq.exc = "NoAnswer"
                /\ lastq.at = sent[i].where

(* moved.leaf.tld. was asked for; the first nameserver of leaf.tld.        *)
(* refused the connection, the second answered with the SOA of the zone    *)
(* and NS records of tld.: the call ended there with NoAnswer naming it    *)
C31_Witness ==
    /\ nq > 0
    /\ lastq.zone = "moved.leaf.tld."
    /\ ~prefer_v4
    /\ net.down = {"l6"}
    /\ Contacted = <<"r6", "t6", "l6", "l4">>
    /\ ResponseTo(4).soa
    /\ ResponseTo(4).ns # <<>>
    /\ lastq.exc = "NoAnswer"
    /\ lastq.at = "l4"

(* the queries answered with a referral: NS records and no SOA *)
Referrals == {i \in Unanswered : ~ResponseTo(i).soa /\ ResponseTo(i).ns # <<>>}

(* queries i < j were sent by the same call of _recursive_query: they have *)
(* the same depth and no query between them came from a caller             *)
SameFrame(i, j) ==
    /\ lastq.levels[i] = lastq.levels[j]
    /\ \A k \in i..j : lastq.levels[k] <= lastq.levels[i]

(* the queries sent by the _recursive_query that follows the referral of   *)
(* query i, and the queries of the address lookups made for it             *)
NextHop(i) ==
    {j \in (i+1)..Len(sent) :
        /\ lastq.levels[j] = lastq.levels[i] - 1
        /\ \A k \in (i+1)..j : lastq.levels[k] < lastq.levels[i]}

LookupsFor(i) ==
    {j \in (i+1)..Len(sent) :
        /\ lastq.levels[j] < lastq.levels[i] - 1
        /\ \A k \in (i+1)..j : lastq.levels[k] < lastq.levels[i]
        /\ <<sent[j].qname, sent[j].what>> # <<sent[i].qname, sent[i].what>>}

(* the NS hosts of a referral that have an entry in its additional section *)
Glued(rs) == {h \in Elements(rs.ns) : h \in addr_from_additional(rs.additional)}

(* the addresses the cache holds for a host *)
CachedAddrs(h) ==
    UNION {Elements(query_cache[k].rrset) :
            k \in {<<Upper(h), "A">>, <<Upper(h), "AAAA">>} \cap DOMAIN query_cache}

(* C32: after a NOERROR response without an answer whose authority section *)
(* holds NS records and no SOA, the resolution goes on with the            *)
(* nameservers of that referral only: the call that received it sends no   *)
(* further query, the following queries for the question go to glue        *)
(* addresses of the referral or to looked-up addresses of its glue-less NS *)
(* hosts, no address lookup is made for a host with glue, and the first    *)
(* step after the referral is the query to its first glue address or the   *)
(* address lookup for its first glue-less host.                            *)
C32_ReferralFollowed ==
    (nq > 0 /\ ~lastq.hit) =>
        \A i \in Referrals : \A rs \in {ResponseTo(i)} :
            /\ \A j \in (i+1)..Len(sent) : ~SameFrame(i, j)
            /\ \A j \in NextHop(i) :
                /\ sent[j].qname = sent[i].qname
                /\ sent[j].what = sent[i].what
                /\ \/ \E g \in Elements(rs.additional) :
                        g.name \in Elements(rs.ns) /\ g.address = sent[j].where
                   \/ \E h \in Elements(rs.ns) \ Glued(rs) : sent[j].where \in CachedAddrs(h)
            /\ \A j \in LookupsFor(i) :
                    \A h \in Glued(rs) : Upper(sent[j].qname) # Upper(h)
            /\ i = Len(sent) => lastq.exc = "RecursionError"
            /\ i < Len(sent) =>
                \A first \in {authority_ns_resolver(prefer_v4, rs.ns, rs.additional)[1]} :
                    IF first.kind = "addr"
                    THEN sent[i+1] = [where |-> first.addr, qname |-> sent[i].qname,
                                      what |-> sent[i].what]
                    ELSE \/ sent[i+1] = [where |-> expand_root_servers(prefer_v4)[1].addr,
                                         qname |-> first.addr, what |-> first.rr]
                         \/ /\ sent[i+1].where \in CachedAddrs(first.addr)
                            /\ sent[i+1].qname = sent[i].qname

(* the referral to leaf.tld. named ns1.leaf.tld. with an IPv4 glue address *)
(* and ns.ext. without glue; the glue address refused the connection, the  *)
(* address of ns.ext. was looked up from the root and the server found     *)
(* there gave the answer                                                   *)
C32_Witness ==
    /\ nq > 0
    /\ lastq.zone = "www.leaf.tld."
    /\ lastq.what = "TXT"
    /\ prefer_v4
    /\ net.glue = "v4"
    /\ net.secondary
    /\ net.down = {"l4"}
    /\ Contacted = <<"r4", "t4", "l4", "r4", "x4", "m4">>
    /\ 2 \in Referrals
    /\ NextHop(2) = {3, 6}
    /\ LookupsFor(2) = {4, 5}
    /\ sent[4].qname = "ns.ext."
    /\ lastq.exc = ""
    /\ lastq.ans.nameserver = "m4"

(* the address family of a server address, and the family the resolver is  *)
(* set to prefer                                                           *)
Family(addr) == IF addr \in {"r4", "t4", "l4", "x4", "m4"} THEN "A" ELSE "AAAA"
Preferred == IF prefer_v4 THEN "A" ELSE "AAAA"

(* one call of _recursive_query never turns from an address of the other   *)
(* family back to one of the preferred family                              *)
PreferredFirst ==
    \A i \in 1..Len(sent) : \A j \in (i+1)..Len(sent) :
        SameFrame(i, j) =>
            ~(Family(sent[i].where) # Preferred /\ Family(sent[j].where) = Preferred)

(* when no nameserver reached after a referral accepted the connection,    *)
(* every glue address of the referral, of either family, was tried         *)
GlueFallback ==
    \A i \in Referrals : \A rs \in {ResponseTo(i)} :
        (\A j \in NextHop(i) : sent[j].where \in net.down) =>
            \A g \in Elements(rs.additional) :
                g.name \in Elements(rs.ns) => \E j \in NextHop(i) : sent[j].where = g.address

(* resolve_host asks for the preferred family first and, when that ends in *)
(* NoAnswer, for the other family; the address it returns is of the family *)
(* it asked for last                                                       *)
HostFallback ==
    hostq.tried # <<>> =>
        /\ hostq.tried[1].what = Preferred
        /\ hostq.tried[1].exc = "NoAnswer" =>
            /\ Len(hostq.tried) = 2
            /\ hostq.tried[2].what # Preferred
        /\ hostq.exc = "" => Family(hostq.addr) = hostq.tried[Len(hostq.tried)].what

(* C33, as claimed: addresses of the preferred family are tried before any *)
(* address of the other family, and the other family is still tried when   *)
(* the preferred family gives no address for a host, also when the address *)
(* lookup for a glue-less NS host ends in NoAnswer.  Stated for networks   *)
(* where every server that accepts a connection answers and the server of  *)
(* ext. is up, and for calls that do not exhaust the call stack.           *)
C33_FamilyFallback ==
    (/\ nq > 0
     /\ ~lastq.hit
     /\ net.slow = {}
     /\ "x4" \notin net.down
     /\ lastq.exc # "RecursionError") =>
        /\ PreferredFirst
        /\ GlueFallback
        /\ HostFallback

(* the queries of the last call for which dns.query.tcp raised a DNS       *)
(* exception                                                               *)
TimedOut == {i \in 1..Len(sent) : sent[i].where \in net.slow}

(* C34: a DNS exception other than NoNameservers raised while a candidate  *)
(* is queried, here a timeout, leaves the resolution at once: the query    *)
(* that timed out is the last one of the call, the call ends in that       *)
(* exception and not in NoNameservers, and nothing is cached for its key.  *)
C34_DnsExceptionPropagates ==
    (nq > 0 /\ ~lastq.hit) =>
        /\ \A i \in TimedOut :
            /\ i = Len(sent)
            /\ lastq.exc = "Timeout"
            /\ LastKey \notin DOMAIN query_cache
        /\ lastq.exc = "Timeout" => Len(sent) \in TimedOut

(* the first root server referred to tld., the query to the first server   *)
(* of tld. raised: the call ended there and the second server of tld. was  *)
(* never asked                                                             *)
C34_Witness ==
    /\ nq > 0
    /\ lastq.zone = "www.leaf.tld."
    /\ lastq.what = "TXT"
    /\ ~prefer_v4
    /\ net.slow = {"t6"}
    /\ net.down = {}
    /\ Contacted = <<"r6", "t6">>
    /\ 1 \in Referrals
    /\ "t4" \in GlueAddrs(ResponseTo(1).additional)
    /\ lastq.exc = "Timeout"

(* the queries of the last call answered with rcode NXDOMAIN or YXDOMAIN *)
DomainFailures == {i \in Answered : ResponseTo(i).rcode \in {"NXDOMAIN", "YXDOMAIN"}}

(* C35: a response with rcode NXDOMAIN or YXDOMAIN ends the resolution at   *)
(* once with the failure of that name: it is the last query of the call,   *)
(* the call raises NXDOMAIN resp. YXDOMAIN, and the cache holds nothing    *)
(* for the key of the call nor for the question that was answered so.      *)
C35_DomainFailureEnds ==
    (nq > 0 /\ ~lastq.hit) =>
        /\ \A i \in DomainFailures :
            /\ i = Len(sent)
            /\ lastq.exc = ResponseTo(i).rcode
            /\ LastKey \notin DOMAIN query_cache
            /\ <<Upper(sent[i].qname), Upper(sent[i].what)>> \notin DOMAIN query_cache
        /\ lastq.exc \in {"NXDOMAIN", "YXDOMAIN"} => Len(sent) \in DomainFailures

(* a first call for missing.leaf.tld. left nothing in the cache for its    *)
(* key; the second call asked for long.leaf.tld. and the first nameserver  *)
(* of leaf.tld. answered YXDOMAIN: the call ended there, the second        *)
(* nameserver of the referral was not asked                                *)
C35_Witness ==
    /\ nq = 2
    /\ lastq.asked = {<<"MISSING.LEAF.TLD.", "TXT">>}
    /\ <<"MISSING.LEAF.TLD.", "TXT">> \notin DOMAIN query_cache
    /\ lastq.zone = "long.leaf.tld."
    /\ ~prefer_v4
    /\ net.down = {}
    /\ net.slow = {}
    /\ Contacted = <<"r6", "t6", "l6">>
    /\ "l4" \in GlueAddrs(ResponseTo(2).additional)
    /\ ResponseTo(3).rcode = "YXDOMAIN"
    /\ lastq.exc = "YXDOMAIN"
----------------------------------------------------------------------------
(* Properties of the stub resolver. *)

(* the rrsets of a section that have the owner, class and type asked for *)
Matching(section) ==
    {i \in 1..Len(section) :
        /\ section[i].name = stubq.zone
        /\ section[i].rdclass = "IN"
        /\ section[i].rdtype = Upper(stubq.what)}

(* the records are those of the matching rrsets of the section: the same   *)
(* records, as many as these rrsets hold, those of an earlier rrset first  *)
RecordsOf(records, section) ==
    /\ Elements(records) = UNION {Elements(section[i].items) : i \in Matching(section)}
    /\ Len(records) = Cardinality(Elements(records))
    /\ \A i \in Matching(section) : \A j \in Matching(section) :
            i < j => \A x \in 1..Len(records) : \A y \in 1..Len(records) :
                (records[x] \in Elements(section[i].items)
                 /\ records[y] \in Elements(section[j].items)) => x < y

(* the nameservers the call configured its dns.resolver.Resolver with *)
Configured ==
    IF stubq.where # "" THEN <<stubq.where>>
    ELSE IF stubq.servers # <<>> THEN stubq.servers
    ELSE SystemNameservers

(* C36: when the lookup of a stub resolver call reports NoAnswer, an RRSIG *)
(* query returns the records of the rrsets of the answer section whose     *)
(* owner, class and type are those of the question, an NS query returns    *)
(* those of the authority section, and a query of another type raises      *)
(* NoAnswer with one of the configured nameservers set on it.              *)
C36_NoAnswerReinterpreted ==
    (stubq.op # "" /\ stubq.out.exc = "NoAnswer") =>
        CASE Upper(stubq.what) = "RRSIG" ->
                /\ stubq.result.exc = ""
                /\ RecordsOf(stubq.result.records, stubq.out.answer)
          [] Upper(stubq.what) = "NS" ->
                /\ stubq.result.exc = ""
                /\ RecordsOf(stubq.result.records, stubq.out.authority)
          [] OTHER ->
                /\ stubq.result.exc = "NoAnswer"
                /\ stubq.result.records = <<>>
                /\ stubq.result.nameserver \in Elements(Configured)

(* an RRSIG query whose response held the signatures of a. in two rrsets   *)
(* and those of b. between them returned the three signatures of a.        *)
C36_Witness ==
    /\ stubq.op = "query_at"
    /\ stubq.what = "RRSIG"
    /\ stubq.out.exc = "NoAnswer"
    /\ Len(stubq.out.answer) = 2
    /\ stubq.out.answer[1] = RRset("a.", "IN", "RRSIG", <<3>>)
    /\ stubq.out.answer[2] = RRset("a.", "IN", "RRSIG", <<1, 2>>)
    /\ stubq.out.authority = <<RRset("b.", "IN", "RRSIG", <<4>>)>>
    /\ stubq.result = StubResult("", <<3, 1, 2>>, "")
----------------------------------------------------------------------------
(* Properties of concurrent calls of the recursive resolver. *)

(* thread t is between the cache test and the cache fill of its call *)
Filling(t) == thr[t].pc \in {"recurse", "store"}

(* C37, as claimed: two concurrent query calls for the same key do not     *)
(* interleave their cache test and cache fill, at most one of them         *)
(* performs a recursion that yields a result for the key, and both return  *)
(* the same result.                                                        *)
C37_CacheProtected ==
    \A t \in Threads : \A u \in Threads \ {t} :
        (thr[t].pc # "idle" /\ thr[u].pc # "idle" /\ KeyOf(t) = KeyOf(u)) =>
            /\ ~(Filling(t) /\ Filling(u))
            /\ ~(/\ thr[t].recursed /\ thr[t].exc = "" /\ thr[t].pc # "recurse"
                 /\ thr[u].recursed /\ thr[u].exc = "" /\ thr[u].pc # "recurse")
            /\ (/\ thr[t].pc = "done" /\ thr[t].exc = ""
                /\ thr[u].pc = "done" /\ thr[u].exc = "") => thr[t].result = thr[u].result
----------------------------------------------------------------------------
(* Properties of the termination of the recursive resolver. *)

(* the pairs of queries of the last call where the later one repeats the   *)
(* earlier one: the same question to the same server                       *)
Revisits ==
    {p \in (1..Len(sent)) \X (1..Len(sent)) : p[1] < p[2] /\ sent[p[1]] = sent[p[2]]}

(* how a call of query can end *)
Endings38 ==
    {"", "NoAnswer", "NoNameservers", "NXDOMAIN", "YXDOMAIN", "Timeout", "RecursionError"}

(* C38: every call of query ends, with a result or a failure.  A query   *)
(* that repeats an earlier query of the same call (a CNAME that leads back *)
(* to a name being resolved, a referral back to servers already visited)   *)
(* is sent further down the call stack than the earlier one, so a loop     *)
(* among the servers ends with RecursionError, and only a loop does.       *)
C38_QueryTerminates ==
    lastq # NoCall =>
        /\ lastq.exc \in Endings38
        /\ Len(lastq.levels) = Len(sent)
        /\ \A p \in Revisits : lastq.levels[p[2]] < lastq.levels[p[1]]
        /\ (lastq.exc = "RecursionError") <=> (Revisits # {})

(* C38 witness: the CNAME of loop.leaf.tld. names itself; the call has     *)
(* asked the same server for it again and has ended with RecursionError   *)
C38_Witness ==
    /\ lastq.zone = "loop.leaf.tld."
    /\ lastq.exc = "RecursionError"
    /\ \E p \in Revisits : sent[p[1]].where \in LeafAddrs /\ Upper(sent[p[1]].qname) = "LOOP.LEAF.TLD."
----------------------------------------------------------------------------
(* Properties of the timestamps of the planner's successor keys. *)

(* the key files of successors whose timestamps have been set: generated   *)
(* keys have the odd ids, and dnssec-keygen -S leaves Inactive unset       *)
SuccessorKeys == {k \in store : k.keyid % 2 = 1 /\ k.d_inactive # None}

(* the reference times next_change is asked for *)
RefTimes == (0 - 3)..8

(* C39: the timestamps the planner gives a successor are ordered,          *)
(* publish <= activate < inactivate <= delete, and next_change of the key  *)
(* file that carries them never raises ValueError("Inconsistent Dates").   *)
C39_SuccessorOrdered ==
    /\ \A i \in DOMAIN SuccessorCalls :
        /\ SuccessorCalls[i].P[1] <= SuccessorCalls[i].A[1]
        /\ SuccessorCalls[i].A[1] < SuccessorCalls[i].I[1]
        /\ SuccessorCalls[i].I[1] <= SuccessorCalls[i].D[1]
    /\ \A k \in SuccessorKeys : \A r \in RefTimes :
        /\ k.d_publish[1] <= k.d_active[1]
        /\ k.d_active[1] < k.d_inactive[1]
        /\ k.d_inactive[1] <= k.d_delete[1]
        /\ next_change(k, r).exc = ""

(* C39 witness: a successor made with an overlap and a pre-publication     *)
(* interval is on disk with its four timestamps, and the run is over       *)
C39_Witness ==
    /\ pc = "done"
    /\ args.overlap > 0
    /\ args.prepublish > 0
    /\ SuccessorCalls # <<>>
    /\ \E k \in SuccessorKeys :
        /\ k.d_publish[1] < k.d_active[1]
        /\ next_change(k, Now).exc = ""
----------------------------------------------------------------------------
(* Properties of the dry run of rotate. *)

(* the commands of the run that write key files *)
WritingCalls == SelectSeq(calls, LAMBDA c : c.cmd \in {"dnssec-settime", "dnssec-keygen"})

(* C40: a rotate run with --dry-run calls neither dnssec-settime           *)
(* (key_settime) nor dnssec-keygen (key_gentemplate), has no task to       *)
(* execute, and leaves the key files as they were when it started.         *)
C40_DryRunOnlyReports ==
    (args.dry_run /\ seen # <<>>) =>
        /\ WritingCalls = <<>>
        /\ store = seen[1].store
        /\ pc = "done"
        /\ todo = <<>>

(* C40 witness: a dry run with valid intervals has planned both a deletion *)
(* time and a successor, and has returned 0                                *)
C40_Witness ==
    /\ args.dry_run
    /\ args.type = "ZSK"
    /\ pc = "done"
    /\ ret = "0"
    /\ \E i \in DOMAIN plan : plan[i].task = "set_times"
    /\ \E i \in DOMAIN plan : plan[i].task = "make_successor"
    /\ calls = <<ListCall>>
====
